---- MODULE Spec2Model ----
(***************************************************************************)
(* The opportunity pipeline of hog-sys/alpha.                              *)
(*  - the broker queue "alpha_signals", the PersistenceService consumers   *)
(*    that drain it (src/src/services/persistence_service.py) and the      *)
(*    Store they insert into: one action per await point of run() and      *)
(*    on_message();                                                        *)
(*  - the scout runners (src/src/scouts/*_runner.py): main()'s loop,       *)
(*    ContractScout.scan's fan-out, and the signal factory.                *)
(***************************************************************************)
EXTENDS Integers, Sequences, FiniteSets, TLC

(* ------------------------------ bounds -------------------------------- *)
MaxMsgs == 2
MaxFaults == 1
MaxIterations == 2
MaxSignals == 2
MaxBatch == 2
MaxAddresses == 3
MaxExcess == 70
MaxClock == 2
MaxCalls == 4
MaxPublishes == 5
MaxLosses == 2
MaxTasks == 3
MaxTicks == 3
MaxGets == 3
MaxUpdates == 3
MaxBurst == 32
MaxBotTicks == 2
BotTickSeconds == 30
TickSeconds == 150

(* -------------------------- program constants ------------------------- *)
\* channel.set_qos(prefetch_count=1)
PrefetchCount == 1
\* asyncio.sleep(10) in both except branches of run()
BackoffSeconds == 10
\* the bus's fixed reconnect backoff (spec section 4.2)
BusBackoffSeconds == 10
\* self.cache_ttl = 300
CacheTtl == 300
\* total_score default when GoPlus gives none
DefaultRiskScore == 100
\* high_risk = risk_score > 60
RiskThreshold == 60
\* self.max_requests_per_minute = 30
MaxRequestsPerMinute == 30

\* consumer instances sharing the queue
Consumers == {1, 2}

(* ------------------------------ payloads ------------------------------ *)
\* keys on_message checks before building the insert
RequiredKeys == {"id", "scout_name", "symbol", "timestamp"}
\* keys the insert statement subscripts (data[...]); expires_at is data.get
InsertKeys == {"id", "scout_name", "signal_type", "symbol", "confidence",
               "data", "timestamp"}
AllKeys == InsertKeys \cup {"expires_at"}

\* message bodies put on the queue: json = FALSE is a body json.loads rejects;
\* v distinguishes two payloads that carry the same id with different content
Payloads ==
    {[json |-> TRUE, keys |-> AllKeys, id |-> 1, v |-> 1],
     [json |-> TRUE, keys |-> AllKeys, id |-> 1, v |-> 2],
     [json |-> TRUE, keys |-> InsertKeys, id |-> 2, v |-> 1],
     [json |-> TRUE, keys |-> AllKeys \ {"signal_type"}, id |-> 2, v |-> 2],
     [json |-> FALSE, keys |-> {}, id |-> 0, v |-> 0]}
    \cup {[json |-> TRUE, keys |-> AllKeys \ {k}, id |-> 2, v |-> 3] :
            k \in {"symbol"}}

\* variant: every field is read with data.get, so the statement is built
\* whatever keys the payload has
StmtBuildsAlways(p) == p.keys \subseteq AllKeys

\* json.loads succeeds on the body
Decodes(p) == p.json
\* all(k in data for k in ['id', 'scout_name', 'symbol', 'timestamp'])
Validate(p) == \A k \in RequiredKeys : k \in p.keys
\* building the insert statement raises KeyError unless every data[...] exists
StmtBuilds(p) == InsertKeys \subseteq p.keys

\* the values(...) of the insert statement
RowOf(p) == [id |-> p.id, v |-> p.v, exp |-> "expires_at" \in p.keys]

VARIABLES
    msgs,            \* published bodies; a message is its index in msgs
    ready,           \* broker queue: messages waiting for delivery
    unacked,         \* per consumer: delivered, not yet acked or rejected
    redelivered,     \* messages the broker requeued at least once
    acked,           \* messages the broker removed on basic.ack
    rejected,        \* messages the broker dropped on basic.reject(requeue=False)
    store,           \* committed rows of the opportunities table, insert order
    pc,              \* per consumer: position in run()/on_message()
    conn,            \* per consumer: its AMQP connection is open
    prefetch,        \* per consumer: the channel's QoS
    inbox,           \* per consumer: messages buffered in queue.iterator()
    cur,             \* per consumer: the message on_message is handling
    result,          \* per consumer: how the try block of on_message ended
    sleep,           \* per consumer: seconds asked of asyncio.sleep
    log,             \* per-message records on_message writes through logger
    faults           \* infrastructure failures and cancellations so far

vars == <<msgs, ready, unacked, redelivered, acked, rejected, store, pc, conn,
          prefetch, inbox, cur, result, sleep, log, faults>>

brokerVars == <<msgs, ready, unacked, redelivered, acked, rejected>>

(* the scouts' state *)
VARIABLES
    kind,        \* which runner script this process is
    rpc,         \* where main() is
    initDone,    \* scout.initialize() has returned
    scanned,     \* ids of the signals the latest scan() returned
    published,   \* ids handed to the bus by the latest publish_opportunities()
    arg,         \* the list the latest publish_opportunities() was called with
    iter,        \* scan() calls started so far
    created,     \* signals created so far (the next fresh id)
    nCleanup,    \* scout.cleanup() calls started so far
    shutdown,    \* a cancellation or an interrupt has reached main()
    raisedBy,    \* what raised the exception that left the loop
    sleepFor,    \* seconds of the asyncio.sleep in progress
    rlog         \* what the runner has logged

runnerVars == <<kind, rpc, initDone, scanned, published, arg, iter, created,
                nCleanup, shutdown, raisedBy, sleepFor, rlog>>

\* the consumer's state a runner never touches
consumerOnly == <<unacked, redelivered, acked, rejected, store, pc, conn,
                  prefetch, inbox, cur, result, sleep, log>>

\* ContractScout.scan: one analyze_address per address, two fetches each
VARIABLES
    fetch,       \* per address and source: state of the fetch task
    analysis,    \* per address: state of analyze_address
    scanpc,      \* where ContractScout.scan is
    scanOut      \* addresses of the signals scan returned, in order

scanVars == <<fetch, analysis, scanpc, scanOut>>

\* one create_opportunity call
VARIABLES
    req,         \* the arguments of the call
    sig          \* the OpportunitySignal it returned

factoryVars == <<req, sig>>

\* the parts below keep their state in one record each
VARIABLES
    bus,         \* a scout's Signal Bus client
    defi,        \* one DeFiScout.scan() call
    dbm,         \* src/core/db.py: the module's flag and the tasks in init_db
    inf,         \* the Infisical secret manager, its config and os.environ
    bot,         \* the SecureTelegramBot
    mig          \* one run of scripts/sqlite_to_timescale.py

restVars == <<bus, defi, dbm, inf, bot, mig>>

\* what the actions of one part leave alone in the other parts
outsidePipeline == <<runnerVars, scanVars, factoryVars, restVars>>
outsideRunner == <<scanVars, factoryVars, restVars>>
outsideScan == <<vars, runnerVars, factoryVars, restVars>>
outsideFactory == <<vars, runnerVars, scanVars, restVars>>
scoutsAndPipeline == <<vars, runnerVars, scanVars, factoryVars>>
outsideBus == <<scoutsAndPipeline, defi, dbm, inf, bot, mig>>
outsideDefi == <<scoutsAndPipeline, bus, dbm, inf, bot, mig>>
outsideDb == <<scoutsAndPipeline, bus, defi, inf, bot, mig>>
outsideInfisical == <<scoutsAndPipeline, bus, defi, dbm, bot, mig>>
outsideBot == <<scoutsAndPipeline, bus, defi, dbm, inf, mig>>
outsideMigration == <<scoutsAndPipeline, bus, defi, dbm, inf, bot>>
allVars == <<vars, outsidePipeline>>

RECURSIVE SortedSeq(_)
\* the elements of a finite set of numbers, ascending
SortedSeq(S) ==
    IF S = {} THEN <<>>
    ELSE LET m == CHOOSE x \in S : \A y \in S : x <= y
         IN <<m>> \o SortedSeq(S \ {m})

StoredIds == {store[i].id : i \in 1..Len(store)}

Init ==
    /\ msgs = <<>> /\ ready = <<>>
    /\ unacked = [c \in Consumers |-> {}]
    /\ redelivered = {} /\ acked = {} /\ rejected = {}
    /\ store = <<>>
    /\ pc = [c \in Consumers |-> "init"]
    /\ conn = [c \in Consumers |-> FALSE]
    /\ prefetch = [c \in Consumers |-> 0]
    /\ inbox = [c \in Consumers |-> <<>>]
    /\ cur = [c \in Consumers |-> 0]
    /\ result = [c \in Consumers |-> "none"]
    /\ sleep = [c \in Consumers |-> 0]
    /\ log = {}
    /\ faults = 0

(* ------------------------------- broker ------------------------------- *)
\* a scout publishes a body to the durable queue
Publish(p) ==
    /\ Len(msgs) < MaxMsgs
    /\ msgs' = Append(msgs, p)
    /\ ready' = Append(ready, Len(msgs) + 1)
    /\ UNCHANGED <<unacked, redelivered, acked, rejected, store, pc, conn,
                   prefetch, inbox, cur, result, sleep, log, faults>>
    /\ UNCHANGED outsidePipeline

\* the broker hands the head of the queue to a consumer whose channel has
\* fewer than prefetch messages unacknowledged
Deliver(c) ==
    /\ conn[c]
    /\ ready # <<>>
    /\ Cardinality(unacked[c]) < prefetch[c]
    /\ ready' = Tail(ready)
    /\ unacked' = [unacked EXCEPT ![c] = @ \cup {Head(ready)}]
    /\ inbox' = [inbox EXCEPT ![c] = Append(@, Head(ready))]
    /\ UNCHANGED <<msgs, redelivered, acked, rejected, store, pc, conn,
                   prefetch, cur, result, sleep, log, faults>>
    /\ UNCHANGED outsidePipeline

\* what the broker does when a consumer's connection closes: the durable
\* queue takes back the messages that consumer had not acknowledged
ClosedUnacked(c) == [unacked EXCEPT ![c] = {}]
ClosedReady(c) == SortedSeq(unacked[c]) \o ready
ClosedRedelivered(c) == redelivered \cup unacked[c]

\* the broker becomes unreachable for a consumer: its connection drops
ConnectionLost(c) ==
    /\ conn[c]
    /\ faults < MaxFaults
    /\ faults' = faults + 1
    /\ conn' = [conn EXCEPT ![c] = FALSE]
    /\ unacked' = ClosedUnacked(c)
    /\ ready' = ClosedReady(c)
    /\ redelivered' = ClosedRedelivered(c)
    /\ UNCHANGED <<msgs, acked, rejected, store, pc, prefetch, inbox, cur,
                   result, sleep, log>>
    /\ UNCHANGED outsidePipeline

(* ------------------------------- Store -------------------------------- *)
\* variant: a table without a unique key on id accepts every insert
NoUniqueKey(id) == FALSE
\* the opportunities table is keyed uniquely by id; the statement on_message
\* builds is a plain INSERT (no ON CONFLICT clause), so a second row with a
\* stored id is refused with an IntegrityError
UniqueViolation(id) == id \in StoredIds

Logged(level, what, who) == log \cup {<<level, what, who>>}

(* ---------------------- PersistenceService.run ------------------------ *)
\* await self.db_manager.initialize() returns
DbInitialize(c) ==
    /\ pc[c] = "init"
    /\ pc' = [pc EXCEPT ![c] = "connecting"]
    /\ UNCHANGED <<brokerVars, store, conn, prefetch, inbox, cur, result,
                   sleep, log, faults>>
    /\ UNCHANGED outsidePipeline

\* await self.db_manager.initialize() raises (Store unreachable): the call
\* is outside the while/try of run(), so the exception leaves run()
DbInitializeFail(c) ==
    /\ pc[c] = "init"
    /\ faults < MaxFaults
    /\ faults' = faults + 1
    /\ pc' = [pc EXCEPT ![c] = "crashed"]
    /\ UNCHANGED <<brokerVars, store, conn, prefetch, inbox, cur, result,
                   sleep, log>>
    /\ UNCHANGED outsidePipeline

\* variant: run() without the set_qos call, so the broker pushes every ready
\* message to the consumer
ConnectWithoutQos(c) ==
    /\ pc[c] = "connecting"
    /\ conn' = [conn EXCEPT ![c] = TRUE]
    /\ prefetch' = [prefetch EXCEPT ![c] = MaxMsgs + 1]
    /\ inbox' = [inbox EXCEPT ![c] = <<>>]
    /\ pc' = [pc EXCEPT ![c] = "listening"]
    /\ UNCHANGED <<brokerVars, store, cur, result, sleep, log, faults>>
    /\ UNCHANGED outsidePipeline
\* connect_robust, channel(), set_qos(prefetch_count=1), declare_queue,
\* queue.iterator(): the consumer is subscribed
Connect(c) ==
    /\ pc[c] = "connecting"
    /\ conn' = [conn EXCEPT ![c] = TRUE]
    /\ prefetch' = [prefetch EXCEPT ![c] = PrefetchCount]
    /\ inbox' = [inbox EXCEPT ![c] = <<>>]
    /\ pc' = [pc EXCEPT ![c] = "listening"]
    /\ UNCHANGED <<brokerVars, store, cur, result, sleep, log, faults>>
    /\ UNCHANGED outsidePipeline

\* variant: the exception is not caught inside the loop and leaves run()
BackoffLeavesRun(c) ==
    /\ pc' = [pc EXCEPT ![c] = "crashed"]
    /\ sleep' = sleep
\* both except branches of run(): log, await asyncio.sleep(10), loop
Backoff(c) ==
    /\ pc' = [pc EXCEPT ![c] = "backoff"]
    /\ sleep' = [sleep EXCEPT ![c] = BackoffSeconds]

\* connect_robust raises AMQPConnectionError (broker unreachable)
ConnectFail(c) ==
    /\ pc[c] = "connecting"
    /\ faults < MaxFaults
    /\ faults' = faults + 1
    /\ Backoff(c)
    /\ UNCHANGED <<brokerVars, store, conn, prefetch, inbox, cur, result,
                   log>>
    /\ UNCHANGED outsidePipeline

\* the queue iterator raises because the connection dropped while listening
ListenDisconnect(c) ==
    /\ pc[c] = "listening"
    /\ ~conn[c]
    /\ inbox[c] = <<>>
    /\ Backoff(c)
    /\ UNCHANGED <<brokerVars, store, conn, prefetch, inbox, cur, result,
                   log, faults>>
    /\ UNCHANGED outsidePipeline

\* asyncio.sleep(10) returns; next iteration of while True
Wake(c) ==
    /\ pc[c] = "backoff"
    /\ pc' = [pc EXCEPT ![c] = "connecting"]
    /\ sleep' = [sleep EXCEPT ![c] = 0]
    /\ UNCHANGED <<brokerVars, store, conn, prefetch, inbox, cur, result,
                   log, faults>>
    /\ UNCHANGED outsidePipeline

(* -------------------- PersistenceService.on_message ------------------- *)
\* "async for message in queue_iter: await self.on_message(message)" up to
\* the first await of on_message: decode, json.loads, the required-key check
\* and the construction of the insert statement
OnMessage(c) ==
    /\ pc[c] = "listening"
    /\ inbox[c] # <<>>
    /\ LET m == Head(inbox[c])
           p == msgs[m]
       IN /\ cur' = [cur EXCEPT ![c] = m]
          /\ inbox' = [inbox EXCEPT ![c] = Tail(@)]
          /\ CASE ~Decodes(p) ->
                    /\ result' = [result EXCEPT ![c] = "json_error"]
                    /\ log' = Logged("error", "JSONDecodeError", m)
                    /\ pc' = [pc EXCEPT ![c] = "exit"]
               [] Decodes(p) /\ ~Validate(p) ->
                    /\ result' = [result EXCEPT ![c] = "ignored"]
                    /\ log' = Logged("warning", "malformed", m)
                    /\ pc' = [pc EXCEPT ![c] = "exit"]
               [] Decodes(p) /\ Validate(p) /\ ~StmtBuilds(p) ->
                    /\ result' = [result EXCEPT ![c] = "KeyError"]
                    /\ log' = Logged("error", "KeyError", m)
                    /\ pc' = [pc EXCEPT ![c] = "exit"]
               [] OTHER ->
                    /\ result' = [result EXCEPT ![c] = "none"]
                    /\ log' = log
                    /\ pc' = [pc EXCEPT ![c] = "insert"]
    /\ UNCHANGED <<brokerVars, store, conn, prefetch, sleep, faults>>
    /\ UNCHANGED outsidePipeline

\* variant: the statement as an upsert (ON CONFLICT (id) DO UPDATE), which
\* overwrites the stored row with the new message's values
InsertUpsert(c) ==
    /\ pc[c] = "insert"
    /\ pc' = [pc EXCEPT ![c] = "exit"]
    /\ LET p == msgs[cur[c]]
       IN /\ result' = [result EXCEPT ![c] = "ok"]
          /\ log' = Logged("debug", "stored", cur[c])
          /\ store' = IF UniqueViolation(p.id)
                      THEN [i \in 1..Len(store) |->
                              IF store[i].id = p.id THEN RowOf(p)
                              ELSE store[i]]
                      ELSE Append(store, RowOf(p))
    /\ UNCHANGED <<brokerVars, conn, prefetch, inbox, cur, sleep, faults>>
    /\ UNCHANGED outsidePipeline

\* async with self.db_engine.connect() as conn: execute(stmt); commit().
\* The Store serialises inserts of one key, so the transaction is one step:
\* it commits the row, or is refused because the id is stored.
Insert(c) ==
    /\ pc[c] = "insert"
    /\ pc' = [pc EXCEPT ![c] = "exit"]
    /\ LET p == msgs[cur[c]]
       IN IF UniqueViolation(p.id)
          THEN /\ result' = [result EXCEPT ![c] = "IntegrityError"]
               /\ log' = Logged("error", "IntegrityError", cur[c])
               /\ store' = store
          ELSE /\ result' = [result EXCEPT ![c] = "ok"]
               /\ log' = Logged("debug", "stored", cur[c])
               /\ store' = Append(store, RowOf(p))
    /\ UNCHANGED <<brokerVars, conn, prefetch, inbox, cur, sleep, faults>>
    /\ UNCHANGED outsidePipeline

\* connect, execute or commit raises a storage-layer error (connection
\* drop): nothing is committed; "except Exception" logs it and passes
InsertFail(c) ==
    /\ pc[c] = "insert"
    /\ faults < MaxFaults
    /\ faults' = faults + 1
    /\ pc' = [pc EXCEPT ![c] = "exit"]
    /\ result' = [result EXCEPT ![c] = "OperationalError"]
    /\ log' = Logged("error", "OperationalError", cur[c])
    /\ UNCHANGED <<brokerVars, store, conn, prefetch, inbox, cur, sleep>>
    /\ UNCHANGED outsidePipeline

\* variant: only a message whose insert succeeded is acknowledged
AckOnlyStored(c) ==
    /\ pc[c] = "exit"
    /\ result[c] # "cancelled"
    /\ cur' = [cur EXCEPT ![c] = 0]
    /\ result' = [result EXCEPT ![c] = "none"]
    /\ IF conn[c]
       THEN /\ acked' = IF result[c] = "ok" THEN acked \cup {cur[c]} ELSE acked
            /\ unacked' = IF result[c] = "ok"
                          THEN [unacked EXCEPT ![c] = @ \ {cur[c]}]
                          ELSE unacked
            /\ pc' = [pc EXCEPT ![c] = "listening"]
            /\ UNCHANGED <<inbox, sleep>>
       ELSE /\ Backoff(c)
            /\ inbox' = [inbox EXCEPT ![c] = <<>>]
            /\ UNCHANGED <<acked, unacked>>
    /\ UNCHANGED <<msgs, ready, redelivered, rejected, store, conn, prefetch,
                   log, faults>>
    /\ UNCHANGED outsidePipeline
\* message.process().__aexit__ without an exception: await message.ack().
\* Every except branch of on_message swallows its exception, so every way
\* the try block ends short of cancellation arrives here.  On a closed
\* channel ack raises; run() catches it, sleeps and reconnects.
Ack(c) ==
    /\ pc[c] = "exit"
    /\ result[c] # "cancelled"
    /\ cur' = [cur EXCEPT ![c] = 0]
    /\ result' = [result EXCEPT ![c] = "none"]
    /\ IF conn[c]
       THEN /\ acked' = acked \cup {cur[c]}
            /\ unacked' = [unacked EXCEPT ![c] = @ \ {cur[c]}]
            /\ pc' = [pc EXCEPT ![c] = "listening"]
            /\ UNCHANGED <<inbox, sleep>>
       ELSE /\ Backoff(c)
            /\ inbox' = [inbox EXCEPT ![c] = <<>>]
            /\ UNCHANGED <<acked, unacked>>
    /\ UNCHANGED <<msgs, ready, redelivered, rejected, store, conn, prefetch,
                   log, faults>>
    /\ UNCHANGED outsidePipeline

(* --------------------- shutdown (task cancellation) ------------------- *)
\* CancelledError raised at an await of run() outside on_message: it is no
\* Exception, so neither except branch of run() catches it; leaving
\* "async with self.connection" closes the connection
CancelRun(c) ==
    /\ faults < MaxFaults
    /\ pc[c] \in {"init", "connecting", "listening", "backoff"}
    /\ faults' = faults + 1
    /\ pc' = [pc EXCEPT ![c] = "cancelled"]
    /\ conn' = [conn EXCEPT ![c] = FALSE]
    /\ inbox' = [inbox EXCEPT ![c] = <<>>]
    /\ unacked' = ClosedUnacked(c)
    /\ ready' = ClosedReady(c)
    /\ redelivered' = ClosedRedelivered(c)
    /\ UNCHANGED <<msgs, acked, rejected, store, prefetch, cur, result,
                   sleep, log>>
    /\ UNCHANGED outsidePipeline

\* CancelledError raised at the await of engine.connect/execute/commit:
\* "except Exception" does not catch it, so it reaches
\* message.process().__aexit__ as an exception.  The cancelled transaction
\* may or may not have committed.
CancelInsert(c) ==
    /\ faults < MaxFaults
    /\ pc[c] = "insert"
    /\ faults' = faults + 1
    /\ result' = [result EXCEPT ![c] = "cancelled"]
    /\ pc' = [pc EXCEPT ![c] = "exit"]
    /\ \E done \in BOOLEAN :
         store' = IF done /\ ~UniqueViolation(msgs[cur[c]].id)
                  THEN Append(store, RowOf(msgs[cur[c]]))
                  ELSE store
    /\ UNCHANGED <<brokerVars, conn, prefetch, inbox, cur, sleep, log>>
    /\ UNCHANGED outsidePipeline

\* CancelledError raised at the await of message.ack(): the ack frame may or
\* may not have been sent before run() unwinds and closes the connection
CancelAck(c) ==
    /\ faults < MaxFaults
    /\ pc[c] = "exit"
    /\ result[c] # "cancelled"
    /\ faults' = faults + 1
    /\ pc' = [pc EXCEPT ![c] = "cancelled"]
    /\ conn' = [conn EXCEPT ![c] = FALSE]
    /\ inbox' = [inbox EXCEPT ![c] = <<>>]
    /\ \E sent \in BOOLEAN :
         IF sent /\ conn[c]
         THEN /\ acked' = acked \cup {cur[c]}
              /\ unacked' = [unacked EXCEPT ![c] = {}]
              /\ ready' = SortedSeq(unacked[c] \ {cur[c]}) \o ready
              /\ redelivered' = redelivered \cup (unacked[c] \ {cur[c]})
         ELSE /\ acked' = acked
              /\ unacked' = ClosedUnacked(c)
              /\ ready' = ClosedReady(c)
              /\ redelivered' = ClosedRedelivered(c)
    /\ UNCHANGED <<msgs, rejected, store, prefetch, cur, result, sleep, log>>
    /\ UNCHANGED outsidePipeline

\* message.process().__aexit__ with an exception: process() was called with
\* its defaults (requeue=False), so the message is rejected without requeue
\* and the broker drops it
RejectNoRequeue(c) ==
    /\ rejected' = rejected \cup {cur[c]}
    /\ unacked' = [unacked EXCEPT ![c] = {}]
    /\ ready' = SortedSeq(unacked[c] \ {cur[c]}) \o ready
    /\ redelivered' = redelivered \cup (unacked[c] \ {cur[c]})

\* the CancelledError leaves on_message through process().__aexit__ and then
\* run(), closing the connection
Reject(c) ==
    /\ pc[c] = "exit"
    /\ result[c] = "cancelled"
    /\ pc' = [pc EXCEPT ![c] = "cancelled"]
    /\ conn' = [conn EXCEPT ![c] = FALSE]
    /\ inbox' = [inbox EXCEPT ![c] = <<>>]
    /\ IF conn[c]
       THEN RejectNoRequeue(c)
       ELSE UNCHANGED <<rejected, unacked, ready, redelivered>>
    /\ UNCHANGED <<msgs, acked, store, prefetch, cur, result, sleep, log,
                   faults>>
    /\ UNCHANGED outsidePipeline

(* --------------------------- scout runners ---------------------------- *)
\* The five runner scripts share one main(): initialize, then scan, publish
\* and sleep for ever inside try / except KeyboardInterrupt / finally cleanup.
Kinds == {"chain", "market", "sentiment", "defi", "contract"}

\* SCAN_INTERVAL defaults of the five scripts
ScanInterval(k) ==
    CASE k = "chain" -> 45
      [] k = "market" -> 30
      [] k = "sentiment" -> 300
      [] k = "defi" -> 60
      [] k = "contract" -> 300

\* the wire body of a signal built by create_opportunity
SignalBody(id) == [json |-> TRUE, keys |-> AllKeys, id |-> id, v |-> 1]

\* fresh signal ids (uuid4 in the program) start above the ids of the
\* hand-written bodies
FirstSignalId ==
    CHOOSE n \in {p.id : p \in Payloads} : \A p \in Payloads : p.id <= n
FreshIds(n) == [i \in 1..n |-> FirstSignalId + created + i]

RunnerInit ==
    /\ kind \in Kinds
    /\ rpc = "created"
    /\ initDone = FALSE
    /\ scanned = <<>>
    /\ published = <<>>
    /\ arg = <<>>
    /\ iter = 0
    /\ created = 0
    /\ nCleanup = 0
    /\ shutdown = FALSE
    /\ raisedBy = "none"
    /\ sleepFor = 0
    /\ rlog = {}

\* no runner process exists
RunnerAbsent ==
    /\ kind = "chain"
    /\ rpc = "absent"
    /\ initDone = FALSE
    /\ scanned = <<>>
    /\ published = <<>>
    /\ arg = <<>>
    /\ iter = 0
    /\ created = 0
    /\ nCleanup = 0
    /\ shutdown = FALSE
    /\ raisedBy = "none"
    /\ sleepFor = 0
    /\ rlog = {}

\* variant: main() enters the loop without awaiting scout.initialize()
RunnerStartScanning ==
    /\ rpc = "created"
    /\ iter < MaxIterations
    /\ rpc' = "scan"
    /\ iter' = iter + 1
    /\ UNCHANGED <<kind, initDone, scanned, published, arg, created,
                   nCleanup, shutdown, raisedBy, sleepFor, rlog>>
    /\ UNCHANGED vars /\ UNCHANGED outsideRunner

\* asyncio.run(main()): main() calls scout.initialize()
RunnerStart ==
    /\ rpc = "created"
    /\ rpc' = "initializing"
    /\ UNCHANGED <<kind, initDone, scanned, published, arg, iter, created,
                   nCleanup, shutdown, raisedBy, sleepFor, rlog>>
    /\ UNCHANGED vars /\ UNCHANGED outsideRunner

\* cleanup placed in the except KeyboardInterrupt branch, not in finally
UnwindWithoutFinally(cause) ==
    /\ raisedBy' = cause
    /\ IF cause = "KeyboardInterrupt"
       THEN rpc' = "cleanup" /\ nCleanup' = nCleanup + 1
       ELSE rpc' = "closed" /\ nCleanup' = nCleanup

\* An exception leaves the try block.  Only KeyboardInterrupt has a handler
\* (it logs); whatever the exception, finally calls scout.cleanup().
Unwind(cause) ==
    /\ raisedBy' = cause
    /\ rpc' = "cleanup"
    /\ nCleanup' = nCleanup + 1

\* initialize() returns and the loop makes its first scan() call
InitializeReturns ==
    /\ rpc = "initializing"
    /\ iter < MaxIterations
    /\ rpc' = "scan"
    /\ initDone' = TRUE
    /\ iter' = iter + 1
    /\ UNCHANGED <<kind, scanned, published, arg, created, nCleanup, shutdown,
                   raisedBy, sleepFor, rlog>>
    /\ UNCHANGED vars /\ UNCHANGED outsideRunner

\* variant: initialize() is awaited inside the try block, so finally runs
\* cleanup() when it raises
InitializeRaisesInsideTry ==
    /\ rpc = "initializing"
    /\ faults < MaxFaults
    /\ faults' = faults + 1
    /\ Unwind("initialize")
    /\ UNCHANGED <<kind, initDone, scanned, published, arg, iter, created,
                   shutdown, sleepFor, rlog>>
    /\ UNCHANGED <<msgs, ready>> /\ UNCHANGED consumerOnly
    /\ UNCHANGED outsideRunner

\* initialize() raises: it is called before the try block
InitializeRaises ==
    /\ rpc = "initializing"
    /\ faults < MaxFaults
    /\ faults' = faults + 1
    /\ rpc' = "closed"
    /\ raisedBy' = "initialize"
    /\ UNCHANGED <<kind, initDone, scanned, published, arg, iter, created,
                   nCleanup, shutdown, sleepFor, rlog>>
    /\ UNCHANGED <<msgs, ready>> /\ UNCHANGED consumerOnly
    /\ UNCHANGED outsideRunner

\* scan() returns n signals; the loop calls publish_opportunities with them
ScanReturns(n) ==
    /\ rpc = "scan"
    /\ created + n <= MaxSignals
    /\ scanned' = FreshIds(n)
    /\ created' = created + n
    /\ arg' = scanned'
    /\ published' = <<>>
    /\ rpc' = "publish"
    /\ UNCHANGED <<kind, initDone, iter, nCleanup, shutdown, raisedBy,
                   sleepFor, rlog>>
    /\ UNCHANGED vars /\ UNCHANGED outsideRunner

\* scan() raises an Exception
ScanRaises ==
    /\ rpc = "scan"
    /\ faults < MaxFaults
    /\ faults' = faults + 1
    /\ Unwind("scan")
    /\ UNCHANGED <<kind, initDone, scanned, published, arg, iter, created,
                   shutdown, sleepFor, rlog>>
    /\ UNCHANGED <<msgs, ready>> /\ UNCHANGED consumerOnly
    /\ UNCHANGED outsideRunner

\* publish_opportunities(batch) hands each signal of the batch to the bus
\* once, in order; an empty batch is a no-op
BusPublishes(batch) == batch

\* the bus puts the bodies of the ids in s on the queue
Enqueue(s) ==
    /\ msgs' = msgs \o [i \in 1..Len(s) |-> SignalBody(s[i])]
    /\ ready' = ready \o [i \in 1..Len(s) |-> Len(msgs) + i]

\* the loop calls publish_opportunities a second time in the same iteration
PublishTwice ==
    /\ rpc = "publish"
    /\ published' = BusPublishes(arg) \o BusPublishes(arg)
    /\ Enqueue(published')
    /\ rpc' = "sleep"
    /\ sleepFor' = ScanInterval(kind)
    /\ UNCHANGED <<kind, initDone, scanned, arg, iter, created, nCleanup,
                   shutdown, raisedBy, rlog>>
    /\ UNCHANGED faults /\ UNCHANGED consumerOnly
    /\ UNCHANGED outsideRunner

\* publish_opportunities returns; the loop sleeps for the scan interval
PublishReturns ==
    /\ rpc = "publish"
    /\ published' = BusPublishes(arg)
    /\ Enqueue(published')
    /\ rpc' = "sleep"
    /\ sleepFor' = ScanInterval(kind)
    /\ UNCHANGED <<kind, initDone, scanned, arg, iter, created, nCleanup,
                   shutdown, raisedBy, rlog>>
    /\ UNCHANGED faults /\ UNCHANGED consumerOnly
    /\ UNCHANGED outsideRunner

\* publish_opportunities raises after the bus took the first n signals
PublishRaises(n) ==
    /\ rpc = "publish"
    /\ arg # <<>>
    /\ n <= Len(arg)
    /\ faults < MaxFaults
    /\ faults' = faults + 1
    /\ published' = SubSeq(BusPublishes(arg), 1, n)
    /\ Enqueue(published')
    /\ Unwind("publish")
    /\ UNCHANGED <<kind, initDone, scanned, arg, iter, created, shutdown,
                   sleepFor, rlog>>
    /\ UNCHANGED consumerOnly
    /\ UNCHANGED outsideRunner

\* the sleep ends and the loop calls scan() again
SleepReturns ==
    /\ rpc = "sleep"
    /\ iter < MaxIterations
    /\ rpc' = "scan"
    /\ iter' = iter + 1
    /\ sleepFor' = 0
    /\ UNCHANGED <<kind, initDone, scanned, published, arg, created, nCleanup,
                   shutdown, raisedBy, rlog>>
    /\ UNCHANGED vars /\ UNCHANGED outsideRunner

\* asyncio.sleep raises
SleepRaises ==
    /\ rpc = "sleep"
    /\ faults < MaxFaults
    /\ faults' = faults + 1
    /\ Unwind("sleep")
    /\ UNCHANGED <<kind, initDone, scanned, published, arg, iter, created,
                   shutdown, sleepFor, rlog>>
    /\ UNCHANGED <<msgs, ready>> /\ UNCHANGED consumerOnly
    /\ UNCHANGED outsideRunner

\* main()'s task is cancelled (asyncio.run on SIGINT or SIGTERM handling):
\* CancelledError is raised at the await main() is suspended in
RunnerCancel ==
    /\ rpc \in {"scan", "publish", "sleep"}
    /\ faults < MaxFaults
    /\ faults' = faults + 1
    /\ shutdown' = TRUE
    /\ Unwind("CancelledError")
    /\ UNCHANGED <<kind, initDone, scanned, published, arg, iter, created,
                   sleepFor, rlog>>
    /\ UNCHANGED <<msgs, ready>> /\ UNCHANGED consumerOnly
    /\ UNCHANGED outsideRunner

\* KeyboardInterrupt is raised inside the try block: the handler logs
RunnerInterrupt ==
    /\ rpc \in {"scan", "publish", "sleep"}
    /\ faults < MaxFaults
    /\ faults' = faults + 1
    /\ shutdown' = TRUE
    /\ rlog' = rlog \cup {"shutting down"}
    /\ Unwind("KeyboardInterrupt")
    /\ UNCHANGED <<kind, initDone, scanned, published, arg, iter, created,
                   sleepFor>>
    /\ UNCHANGED <<msgs, ready>> /\ UNCHANGED consumerOnly
    /\ UNCHANGED outsideRunner

\* scout.cleanup() returns and main() ends
CleanupReturns ==
    /\ rpc = "cleanup"
    /\ rpc' = "closed"
    /\ UNCHANGED <<kind, initDone, scanned, published, arg, iter, created,
                   nCleanup, shutdown, raisedBy, sleepFor, rlog>>
    /\ UNCHANGED vars /\ UNCHANGED outsideRunner

\* the steps of main() when nothing fails under it
RunnerStep ==
    \/ RunnerStart \/ InitializeReturns
    \/ \E n \in 0..MaxBatch : ScanReturns(n)
    \/ PublishReturns \/ SleepReturns \/ CleanupReturns

\* exceptions and shutdown
RunnerFault ==
    \/ InitializeRaises \/ ScanRaises
    \/ \E n \in 0..MaxBatch : PublishRaises(n)
    \/ SleepRaises \/ RunnerCancel \/ RunnerInterrupt

RunnerNext == RunnerStep \/ RunnerFault

(* ------------------------- ContractScout.scan ------------------------- *)
Addresses == 1..MaxAddresses
Sources == {"goplus", "etherscan"}

\* no scan has been called
ScanAbsent ==
    /\ fetch = [a \in Addresses |-> [f \in Sources |-> "unstarted"]]
    /\ analysis = [a \in Addresses |-> "unstarted"]
    /\ scanpc = "absent"
    /\ scanOut = <<>>

\* a ContractScout about to be scanned
ScanInit ==
    /\ fetch = [a \in Addresses |-> [f \in Sources |-> "unstarted"]]
    /\ analysis = [a \in Addresses |-> "unstarted"]
    /\ scanpc = "idle"
    /\ scanOut = <<>>

\* scan() builds one analyze_address coroutine per address and awaits their
\* gather
ContractScanStart ==
    /\ scanpc = "idle"
    /\ scanpc' = "gathering"
    /\ UNCHANGED <<fetch, analysis, scanOut>>
    /\ UNCHANGED outsideScan

\* analyze_address(a) runs to its await: both fetch tasks are created and
\* gathered
AnalyzeStart(a) ==
    /\ scanpc = "gathering"
    /\ analysis[a] = "unstarted"
    /\ analysis' = [analysis EXCEPT ![a] = "gathering"]
    /\ fetch' = [fetch EXCEPT ![a] = [f \in Sources |-> "running"]]
    /\ UNCHANGED <<scanpc, scanOut>>
    /\ UNCHANGED outsideScan

\* what a fetch can return: a result with a numeric score, an empty dict, or
\* (GoPlus only) a non-empty result whose total_score float() rejects
FetchResults(f) ==
    IF f = "goplus" THEN {"ok", "empty", "malformed"} ELSE {"ok", "empty"}

\* a fetch task returns; nothing stops a task once it is created
FetchReturns(a, f, out) ==
    /\ fetch[a][f] = "running"
    /\ out \in FetchResults(f)
    /\ fetch' = [fetch EXCEPT ![a][f] = out]
    /\ UNCHANGED <<analysis, scanpc, scanOut>>
    /\ UNCHANGED outsideScan

\* a fetch task raises (timeout, connection error, bad response)
FetchRaises(a, f) ==
    /\ fetch[a][f] = "running"
    /\ fetch' = [fetch EXCEPT ![a][f] = "raised"]
    /\ UNCHANGED <<analysis, scanpc, scanOut>>
    /\ UNCHANGED outsideScan

\* variant: the two lookups are gathered with return_exceptions=True and
\* only the GoPlus result is looked at, so a failed Etherscan lookup does
\* not stop the signal
AnalyzeReturnsDespiteEtherscan(a) ==
    /\ analysis[a] = "gathering"
    /\ fetch[a]["goplus"] \in FetchResults("goplus")
    /\ fetch[a]["etherscan"] \in FetchResults("etherscan") \cup {"raised"}
    /\ analysis' = [analysis EXCEPT ![a] =
                      IF fetch[a]["goplus"] = "ok" THEN "signal" ELSE "none"]
    /\ UNCHANGED <<fetch, scanpc, scanOut>>
    /\ UNCHANGED outsideScan

\* the inner gather delivers both results: no GoPlus data gives None, a
\* score float() rejects raises inside the try and gives None, otherwise
\* create_opportunity builds the signal
AnalyzeReturns(a) ==
    /\ analysis[a] = "gathering"
    /\ \A f \in Sources : fetch[a][f] \in FetchResults(f)
    /\ analysis' = [analysis EXCEPT ![a] =
                      IF fetch[a]["goplus"] = "ok" THEN "signal" ELSE "none"]
    /\ UNCHANGED <<fetch, scanpc, scanOut>>
    /\ UNCHANGED outsideScan

\* analyze_address without its try/except: the exception reaches scan()'s
\* gather, which re-raises it
AnalyzePropagates(a) ==
    /\ analysis[a] = "gathering"
    /\ \E f \in Sources : fetch[a][f] = "raised"
    /\ analysis' = [analysis EXCEPT ![a] = "raised"]
    /\ scanpc' = "raised"
    /\ UNCHANGED <<fetch, scanOut>>
    /\ UNCHANGED outsideScan

\* gather(goplus_task, etherscan_task, return_exceptions=False) raises as
\* soon as one of the two tasks has raised; it does not cancel or await the
\* other.  except Exception logs and returns None.
AnalyzeCatches(a) ==
    /\ analysis[a] = "gathering"
    /\ \E f \in Sources : fetch[a][f] = "raised"
    /\ analysis' = [analysis EXCEPT ![a] = "none"]
    /\ UNCHANGED <<fetch, scanpc, scanOut>>
    /\ UNCHANGED outsideScan

\* [r for r in results if r], results in the order of self.addresses
Signals == SortedSeq({a \in Addresses : analysis[a] = "signal"})

\* every analyze_address has returned: scan() returns the signals
ContractScanReturns ==
    /\ scanpc = "gathering"
    /\ \A a \in Addresses : analysis[a] \in {"signal", "none"}
    /\ scanpc' = "returned"
    /\ scanOut' = Signals
    /\ UNCHANGED <<fetch, analysis>>
    /\ UNCHANGED outsideScan

ScanNext ==
    \/ ContractScanStart
    \/ \E a \in Addresses : AnalyzeStart(a) \/ AnalyzeReturns(a)
                              \/ AnalyzeCatches(a)
    \/ \E a \in Addresses, f \in Sources :
          \/ \E out \in FetchResults(f) : FetchReturns(a, f, out)
          \/ FetchRaises(a, f)
    \/ ContractScanReturns

(* ------------------------- create_opportunity ------------------------- *)
\* Confidences are in hundredths (90 is 0.9), times in seconds.
Scouts == {"chain", "defi", "sentiment", "contract"}
\* any other caller of the factory, passing a confidence of its own
Caller == "caller"

\* what each scan draws or fetches, in the unit that makes value / divisor a
\* number of hundredths: chain transfer values in 50,000 USD, DeFi TVL in
\* 100,000 USD, sentiment in hundredths, GoPlus total_score as it comes,
\* a caller's confidence in hundredths
Inputs(s) ==
    CASE s = "chain" -> 2..100
      [] s = "defi" -> 5..100
      [] s = "sentiment" -> -100..100
      [] s = "contract" -> (0 - MaxExcess)..(100 + MaxExcess)
      [] s = Caller -> (0 - MaxExcess)..(100 + MaxExcess)

Min(x, y) == IF x <= y THEN x ELSE y
Max(x, y) == IF x >= y THEN x ELSE y
Abs(x) == IF x < 0 THEN 0 - x ELSE x

\* the confidence argument each scan computes
Confidence(s, x) ==
    CASE s = "chain" -> Min(x, 90)
      [] s = "defi" -> Min(x, 90)
      [] s = "sentiment" -> Min(Abs(x), 90)
      [] s = "contract" -> Max(10, 100 - x)
      [] s = Caller -> x

\* float(goplus.get("token_security", {}).get("total_score", 100))
RiskScore(given, score) == IF given THEN score ELSE DefaultRiskScore

\* variant: a score of exactly the threshold counts as high risk
SignalTypeAtThreshold(s, x) ==
    CASE s = "chain" -> "whale_movement"
      [] s = "defi" -> "defi_pool"
      [] s = "sentiment" -> "sentiment_spike"
      [] s = "contract" -> IF x >= RiskThreshold THEN "high_risk_contract"
                           ELSE "low_risk_contract"
      [] s = Caller -> "other"

\* the signal_type argument each scan passes; ContractScout: high_risk =
\* risk_score > 60
SignalType(s, x) ==
    CASE s = "chain" -> "whale_movement"
      [] s = "defi" -> "defi_pool"
      [] s = "sentiment" -> "sentiment_spike"
      [] s = "contract" -> IF x > RiskThreshold THEN "high_risk_contract"
                           ELSE "low_risk_contract"
      [] s = Caller -> "other"

\* the expires_in_minutes argument each scan passes
ExpiresInMinutes(s) ==
    CASE s = "chain" -> 5
      [] s = "defi" -> 10
      [] s = "sentiment" -> 15
      [] s = "contract" -> 60

Validities == {ExpiresInMinutes(s) : s \in Scouts}

\* variant: a factory that stores the confidence it is given
KeepConfidence(c) == c
\* create_opportunity clamps confidence to [0, 1]
ClampConfidence(c) == Max(0, Min(100, c))

\* variant: the validity added as seconds
ExpiresAtSeconds(ts, minutes) == ts + minutes
\* expires_at is the creation time plus the requested minutes
ExpiresAt(ts, minutes) == ts + minutes * 60

\* no factory call is under way
FactoryAbsent ==
    /\ req = [scout |-> "none", x |-> 0, given |-> TRUE, minutes |-> 0,
              now |-> 0]
    /\ sig = [made |-> FALSE, confidence |-> 0, timestamp |-> 0,
              expires_at |-> 0, signal_type |-> "", passed |-> 0]

\* a scan, or another caller, is about to call create_opportunity
FactoryInit ==
    /\ \E s \in Scouts \cup {Caller} :
         \E x \in Inputs(s), now \in 0..MaxClock :
           \E m \in (IF s = Caller THEN Validities ELSE {ExpiresInMinutes(s)}) :
             \E g \in (IF s = "contract" THEN BOOLEAN ELSE {TRUE}) :
               req = [scout |-> s, x |-> RiskScore(g, x), given |-> g,
                      minutes |-> m, now |-> now]
    /\ sig = [made |-> FALSE, confidence |-> 0, timestamp |-> 0,
              expires_at |-> 0, signal_type |-> "", passed |-> 0]

\* self.create_opportunity(signal_type, symbol, confidence, data,
\* expires_in_minutes): stamps the time, clamps the confidence
CreateOpportunity ==
    /\ req.scout # "none"
    /\ ~sig.made
    /\ sig' = [made |-> TRUE,
               confidence |-> ClampConfidence(Confidence(req.scout, req.x)),
               signal_type |-> SignalType(req.scout, req.x),
               passed |-> Confidence(req.scout, req.x),
               timestamp |-> req.now,
               expires_at |-> ExpiresAt(req.now, req.minutes)]
    /\ UNCHANGED req
    /\ UNCHANGED outsideFactory

\* the signal is handed on and the next candidate is considered
NextCandidate ==
    /\ sig.made
    /\ \E x \in {req.x - 1, req.x + 1} \cap Inputs(req.scout) :
         req' = [req EXCEPT !.x = x, !.given = TRUE]
    /\ sig' = [made |-> FALSE, confidence |-> 0, timestamp |-> 0,
               expires_at |-> 0, signal_type |-> "", passed |-> 0]
    /\ UNCHANGED outsideFactory

FactoryNext == CreateOpportunity \/ NextCandidate

(* ----------------------------- Signal Bus ----------------------------- *)
\* The bus client of one scout: connected, or waiting out the backoff
\* before it connects again.  outcomes is what each publish call returned
\* to its caller; pending is a publish call that has not returned yet.
BusInit ==
    bus = [state |-> "connected", sleep |-> 0, outcomes |-> <<>>,
           pending |-> FALSE, losses |-> 0, retries |-> 0]

\* no bus client exists
BusAbsent ==
    bus = [state |-> "absent", sleep |-> 0, outcomes |-> <<>>,
           pending |-> FALSE, losses |-> 0, retries |-> 0]

\* variant: a publish call made while disconnected waits for the connection
BusPublishBlocks ==
    /\ bus.state \in {"connected", "backoff"}
    /\ ~bus.pending
    /\ Len(bus.outcomes) < MaxPublishes
    /\ bus' = IF bus.state = "connected"
              THEN [bus EXCEPT !.outcomes = Append(@, "ok")]
              ELSE [bus EXCEPT !.pending = TRUE]
    /\ UNCHANGED outsideBus

\* publish(signal): sent when connected; while disconnected the call returns
\* an error at once
BusPublish ==
    /\ bus.state \in {"connected", "backoff"}
    /\ ~bus.pending
    /\ Len(bus.outcomes) < MaxPublishes
    /\ bus' = [bus EXCEPT !.outcomes =
                 Append(@, IF bus.state = "connected" THEN "ok" ELSE "error")]
    /\ UNCHANGED outsideBus

\* the connection to the broker drops: the bus starts its backoff
BusConnectionLost ==
    /\ bus.state = "connected"
    /\ bus.losses < MaxLosses
    /\ bus' = [bus EXCEPT !.state = "backoff", !.sleep = BusBackoffSeconds,
                          !.losses = @ + 1]
    /\ UNCHANGED outsideBus

\* a connection attempt fails: the bus waits the same backoff again
BusReconnectFails ==
    /\ bus.state = "backoff"
    /\ bus.retries < MaxLosses
    /\ bus' = [bus EXCEPT !.sleep = BusBackoffSeconds, !.retries = @ + 1]
    /\ UNCHANGED outsideBus

\* the backoff is over and the bus is connected again; a waiting publish
\* call, if any, is sent
BusReconnect ==
    /\ bus.state = "backoff"
    /\ bus' = [bus EXCEPT !.state = "connected", !.sleep = 0,
                          !.pending = FALSE,
                          !.outcomes = IF bus.pending THEN Append(@, "ok")
                                       ELSE @]
    /\ UNCHANGED outsideBus

BusNext ==
    \/ BusPublish \/ BusConnectionLost \/ BusReconnectFails \/ BusReconnect

(* --------------------------- DeFiScout.scan --------------------------- *)
\* TVLs are in units of 100,000 USD: random.randint(500_000, 10_000_000)
\* is 5..100, the default min_tvl 1_000_000 is 10.
TvlSamples == {5, 9, 10, 11, 50, 100}
\* DEFI_MIN_TVL is any integer the operator sets
MinTvls == {0, 10, 51, 101}
\* random.randint(0, 2) candidates per scan
Candidates == 0..2

DefiInit ==
    \E m \in MinTvls :
        defi = [pc |-> "idle", minTvl |-> m, n |-> 0, i |-> 0, out |-> <<>>]

\* no DeFiScout exists
DefiAbsent ==
    defi = [pc |-> "absent", minTvl |-> 0, n |-> 0, i |-> 0, out |-> <<>>]

\* scan() draws the number of candidates of this scan
DefiScanStart(n) ==
    /\ defi.pc = "idle"
    /\ defi' = [defi EXCEPT !.pc = "loop", !.n = n, !.i = 0, !.out = <<>>]
    /\ UNCHANGED outsideDefi

\* variant: the loop body without the min_tvl test
DefiCandidateUnfiltered(tvl) ==
    /\ defi.pc = "loop"
    /\ defi.i < defi.n
    /\ defi' = [defi EXCEPT !.i = @ + 1, !.out = Append(@, tvl)]
    /\ UNCHANGED outsideDefi

\* one pass of the for loop: a candidate below min_tvl is skipped
\* (continue), another becomes a signal carrying tvl_usd
DefiCandidate(tvl) ==
    /\ defi.pc = "loop"
    /\ defi.i < defi.n
    /\ defi' = [defi EXCEPT !.i = @ + 1,
                            !.out = IF tvl < defi.minTvl THEN @
                                    ELSE Append(@, tvl)]
    /\ UNCHANGED outsideDefi

\* the loop is over: return opportunities
DefiScanReturns ==
    /\ defi.pc = "loop"
    /\ defi.i = defi.n
    /\ defi' = [defi EXCEPT !.pc = "returned"]
    /\ UNCHANGED outsideDefi

\* the runner's next iteration scans again
DefiScanAgain ==
    /\ defi.pc = "returned"
    /\ defi' = [defi EXCEPT !.pc = "idle"]
    /\ UNCHANGED outsideDefi

DefiNext ==
    \/ \E n \in Candidates : DefiScanStart(n)
    \/ \E tvl \in TvlSamples : DefiCandidate(tvl)
    \/ DefiScanReturns \/ DefiScanAgain

(* ------------------------------ core/db.py ---------------------------- *)
\* tasks of one process that call init_db()
Tasks == 1..MaxTasks

DbInit ==
    dbm = [initialized |-> FALSE,
           task |-> [t \in Tasks |-> "idle"],
           started |-> 0,      \* db.initialize() calls started
           done |-> 0,         \* db.initialize() calls that returned
           failures |-> 0]

\* the module is not imported
DbAbsent ==
    dbm = [initialized |-> FALSE,
           task |-> [t \in Tasks |-> "absent"],
           started |-> 0, done |-> 0, failures |-> 0]

\* a task calls init_db(), directly or scheduled by init_db_sync: with the
\* flag set it returns; otherwise it starts db.initialize() and is suspended
\* in the await
InitDbEnter(t) ==
    /\ dbm.task[t] = "idle"
    /\ dbm' = IF dbm.initialized
              THEN [dbm EXCEPT !.task[t] = "returned"]
              ELSE [dbm EXCEPT !.task[t] = "awaiting", !.started = @ + 1]
    /\ UNCHANGED outsideDb

\* db.initialize() returns to the task: _initialized = True
InitDbFinish(t) ==
    /\ dbm.task[t] = "awaiting"
    /\ dbm' = [dbm EXCEPT !.task[t] = "returned", !.initialized = TRUE,
                          !.done = @ + 1]
    /\ UNCHANGED outsideDb

\* db.initialize() raises: init_db() raises and the flag stays unset
InitDbRaises(t) ==
    /\ dbm.task[t] = "awaiting"
    /\ dbm.failures < MaxFaults
    /\ dbm' = [dbm EXCEPT !.task[t] = "raised", !.failures = @ + 1]
    /\ UNCHANGED outsideDb

\* the task is about to call init_db() once more
InitDbAgain(t) ==
    /\ dbm.task[t] \in {"returned", "raised"}
    /\ dbm' = [dbm EXCEPT !.task[t] = "idle"]
    /\ UNCHANGED outsideDb

DbNext ==
    \E t \in Tasks :
        InitDbEnter(t) \/ InitDbFinish(t) \/ InitDbRaises(t) \/ InitDbAgain(t)

(* ----------------------- infisical-integration.py --------------------- *)
\* os.environ and the secrets are dicts over a few keys; a key maps to its
\* value or to "unset" when the dict has no such key.
Keys == {"A", "B"}
Vals == {"1", "x"}
Dicts == [Keys -> Vals \cup {"unset"}]
EmptyDict == [k \in Keys |-> "unset"]

\* what the Infisical server does with a request: 200 with the secrets, 401,
\* another status, or no connection
Responses ==
    {[status |-> "200", secrets |-> d] : d \in Dicts}
    \cup {[status |-> st, secrets |-> EmptyDict] :
            st \in {"401", "500", "ClientConnectorError"}}

\* values get() handles: a string, an int (by its digits) or None
None == [t |-> "none", v |-> ""]
Str(v) == [t |-> "str", v |-> v]
IntOf(v) == [t |-> "int", v |-> v]
\* the strings int() accepts
Numeric == {"1", "7"}
Defaults == {None, Str("7")}
Casts == {"str", "int"}

NoCall ==
    [op |-> "none", force |-> FALSE, http |-> FALSE, from |-> "none",
     out |-> EmptyDict, count |-> 0, key |-> "A", default |-> None,
     cast |-> "str", asked |-> FALSE, secret |-> "unset", value |-> None]

\* InfisicalSecretManager.__init__ and InfisicalConfig.__init__, in a
\* process whose clock is at least cache_ttl past last_fetch = 0
InfisicalInit ==
    \E e \in Dicts, tok \in BOOLEAN :
        inf = [env |-> e, token |-> tok, cache |-> EmptyDict,
               lastFetch |-> 0, now |-> CacheTtl, fetched |-> FALSE,
               config |-> [k \in Keys |-> [cached |-> FALSE, value |-> None]],
               calls |-> 0, ret |-> NoCall]

\* the script is not loaded
InfisicalAbsent ==
    inf = [env |-> EmptyDict, token |-> FALSE, cache |-> EmptyDict,
           lastFetch |-> 0, now |-> 0, fetched |-> FALSE,
           config |-> [k \in Keys |-> [cached |-> FALSE, value |-> None]],
           calls |-> 0, ret |-> NoCall]

Loaded == inf.now > 0

\* fetch_secrets(force_refresh) when the server would answer resp: the new
\* secrets_cache and last_fetch, the dict returned, and whether a request
\* was made.  The cache is served only when it is non-empty; without a
\* token, on a status other than 200 and on an exception dict(os.environ)
\* is returned.
FetchSecrets(force, resp) ==
    IF ~force /\ (inf.now - inf.lastFetch) < CacheTtl /\ inf.cache # EmptyDict
    THEN [cache |-> inf.cache, lastFetch |-> inf.lastFetch, fetched |-> inf.fetched,
          out |-> inf.cache, from |-> "cache", http |-> FALSE]
    ELSE IF ~inf.token
    THEN [cache |-> inf.cache, lastFetch |-> inf.lastFetch, fetched |-> inf.fetched,
          out |-> inf.env, from |-> "env", http |-> FALSE]
    ELSE IF resp.status = "200"
    THEN [cache |-> resp.secrets, lastFetch |-> inf.now, fetched |-> TRUE,
          out |-> resp.secrets, from |-> "fresh", http |-> TRUE]
    ELSE [cache |-> inf.cache, lastFetch |-> inf.lastFetch, fetched |-> inf.fetched,
          out |-> inf.env, from |-> "env", http |-> TRUE]

\* a caller awaits fetch_secrets(force_refresh=force)
Fetch(force, resp) ==
    /\ Loaded
    /\ inf.calls < MaxCalls
    /\ LET f == FetchSecrets(force, resp)
       IN inf' = [inf EXCEPT !.cache = f.cache, !.lastFetch = f.lastFetch,
                             !.fetched = f.fetched,
                             !.calls = @ + 1,
                             !.ret = [NoCall EXCEPT !.op = "fetch",
                                        !.force = force, !.http = f.http,
                                        !.from = f.from, !.out = f.out]]
    /\ UNCHANGED outsideInfisical

\* variant: the loop without the "not in os.environ" test
InjectOverwriting(secrets) ==
    [env |-> [k \in Keys |-> IF secrets[k] # "unset" THEN secrets[k]
                             ELSE inf.env[k]],
     count |-> Cardinality({k \in Keys : secrets[k] # "unset"})]

\* the for loop of inject_secrets_to_env over the dict fetch_secrets gave
Inject(secrets) ==
    [env |-> [k \in Keys |-> IF secrets[k] # "unset" /\ inf.env[k] = "unset"
                             THEN secrets[k] ELSE inf.env[k]],
     count |-> Cardinality({k \in Keys :
                              secrets[k] # "unset" /\ inf.env[k] = "unset"})]

\* a caller awaits inject_secrets_to_env()
InjectSecretsToEnv(resp) ==
    /\ Loaded
    /\ inf.calls < MaxCalls
    /\ LET f == FetchSecrets(FALSE, resp)
           j == Inject(f.out)
       IN inf' = [inf EXCEPT !.cache = f.cache, !.lastFetch = f.lastFetch,
                             !.fetched = f.fetched,
                             !.env = j.env,
                             !.calls = @ + 1,
                             !.ret = [NoCall EXCEPT !.op = "inject",
                                        !.http = f.http, !.from = f.from,
                                        !.out = f.out, !.count = j.count]]
    /\ UNCHANGED outsideInfisical

\* the clock moves on
Tick ==
    /\ Loaded
    /\ inf.now < CacheTtl + MaxTicks * TickSeconds
    /\ inf' = [inf EXCEPT !.now = @ + TickSeconds]
    /\ UNCHANGED outsideInfisical

\* the process sets or removes an environment variable
SetEnv(k, v) ==
    /\ Loaded
    /\ inf.calls < MaxCalls
    /\ inf.env[k] # v
    /\ inf' = [inf EXCEPT !.env[k] = v]
    /\ UNCHANGED outsideInfisical

\* the type conversion of get(): None and cast_type str pass through, int()
\* of a non-numeric string raises ValueError and gives the default
Convert(value, default, cast) ==
    IF value = None \/ cast = "str" THEN value
    ELSE IF value.v \in Numeric THEN IntOf(value.v)
    ELSE default

\* a caller awaits InfisicalConfig.get(k, default, cast): the cached value
\* if the key was asked before; otherwise os.getenv, then get_secret with
\* the default, then the conversion, and the result is cached
Get(k, default, cast, resp) ==
    /\ Loaded
    /\ inf.calls < MaxGets
    /\ IF inf.config[k].cached
       THEN inf' = [inf EXCEPT
                      !.calls = @ + 1,
                      !.ret = [NoCall EXCEPT !.op = "get", !.key = k,
                                 !.default = default, !.cast = cast,
                                 !.value = inf.config[k].value]]
       ELSE LET ask == inf.env[k] = "unset"
                f == FetchSecrets(FALSE, resp)
                raw == IF ~ask THEN Str(inf.env[k])
                       ELSE IF f.out[k] # "unset" THEN Str(f.out[k])
                       ELSE default
                value == Convert(raw, default, cast)
            IN inf' = [inf EXCEPT
                         !.cache = IF ask THEN f.cache ELSE @,
                         !.lastFetch = IF ask THEN f.lastFetch ELSE @,
                         !.fetched = IF ask THEN f.fetched ELSE @,
                         !.config[k] = [cached |-> TRUE, value |-> value],
                         !.calls = @ + 1,
                         !.ret = [NoCall EXCEPT !.op = "get", !.key = k,
                                    !.default = default, !.cast = cast,
                                    !.asked = ask,
                                    !.secret = IF ask THEN f.out[k]
                                               ELSE "unset",
                                    !.value = value]]
    /\ UNCHANGED outsideInfisical

SecretsNext ==
    \/ \E force \in BOOLEAN, resp \in Responses : Fetch(force, resp)
    \/ \E resp \in Responses : InjectSecretsToEnv(resp)
    \/ Tick

\* the server's answers while the config is read: no secret, every key with
\* a numeric value, every key with a non-numeric value, or a failure
ConfigResponses ==
    {[status |-> "200", secrets |-> [k \in Keys |-> v]] :
        v \in Vals \cup {"unset"}}
    \cup {[status |-> "500", secrets |-> EmptyDict]}

ConfigNext ==
    \/ \E k \in Keys, d \in Defaults, c \in Casts, resp \in ConfigResponses :
          Get(k, d, c, resp)
    \/ \E k \in Keys, v \in Vals \cup {"unset"} : SetEnv(k, v)
    \/ Tick

(* --------------------------- telegram/bot.py -------------------------- *)
\* Times are in seconds, confidences in hundredths.
Users == {1, 2}

\* the updates a user sends: the commands that have a cmd_ method, the
\* callback data of the bot's buttons and one that _validate_callback_data
\* rejects, and a text message
Updates ==
    {[kind |-> "command", data |-> d] :
        d \in {"start", "alerts", "subscribe", "unsubscribe"}}
    \cup {[kind |-> "callback", data |-> d] :
            d \in {"help", "settings", "set_confidence", "bad data"}}
    \cup {[kind |-> "message", data |-> "text"]}

\* handler.__name__ of the handler registered for an update
HandlerName(upd) ==
    CASE upd.kind = "callback" -> "handle_callback_query"
      [] upd.kind = "message" -> "handle_message"
      [] upd.data = "start" -> "cmd_start"
      [] upd.data = "alerts" -> "cmd_alerts"
      [] upd.data = "subscribe" -> "cmd_subscribe"
      [] upd.data = "unsubscribe" -> "cmd_unsubscribe"

\* the handler names the wrapper asks an authorization for
Restricted == {"cmd_alerts", "cmd_settings", "cmd_subscribe"}

\* what the handler does for the update: the function it ends in.  A
\* callback with invalid data is answered and nothing else is done.
Functionality(upd) ==
    CASE upd.kind = "message" -> "message"
      [] upd.kind = "command" -> upd.data
      [] upd.data = "help" -> "help"
      [] upd.data = "settings" -> "settings"
      [] upd.data = "set_confidence" -> "setting"
      [] OTHER -> "none"

\* cmd_help replies through update.message, which a callback update does
\* not have: the AttributeError reaches the wrapper's except clause
HandlerResult(upd) ==
    IF upd.kind = "callback" /\ upd.data = "help" THEN "error" ELSE "ok"

\* default_preferences, and settings a user stored in Redis
DefaultPreferences ==
    [min_confidence |-> 70, signal_types |-> {"arbitrage", "volume_spike"}]
StoredPreferences ==
    {DefaultPreferences,
     [min_confidence |-> 50, signal_types |-> {"whale_movement"}]}

NoUpdate ==
    [user |-> 0, kind |-> "none", data |-> "", verdict |-> "none",
     ran |-> "none", result |-> "none"]

NoSend ==
    [pc |-> "idle", todo |-> <<>>, ids |-> <<>>,
     opp |-> [confidence |-> 0, signal_type |-> ""],
     sent |-> <<>>, failed |-> {}, calls |-> 0]

\* SecureTelegramBot.__init__; left is the number of updates and calls the
\* run still makes
BotBuilt(budget) ==
    bot = [state |-> "built", running |-> FALSE, redis |-> FALSE,
           authorized |-> {}, admin |-> {}, blocked |-> {},
           subscribers |-> {},
           limiter |-> [u \in Users |-> <<>>],
           admitted |-> [u \in Users |-> <<>>],
           sessions |-> [u \in Users |-> 0],
           settings |-> [u \in Users |-> DefaultPreferences],
           now |-> 0, left |-> budget, last |-> NoUpdate, send |-> NoSend]

\* no bot exists
BotAbsent ==
    bot = [state |-> "absent", running |-> FALSE, redis |-> FALSE,
           authorized |-> {}, admin |-> {}, blocked |-> {},
           subscribers |-> {},
           limiter |-> [u \in Users |-> <<>>],
           admitted |-> [u \in Users |-> <<>>],
           sessions |-> [u \in Users |-> 0],
           settings |-> [u \in Users |-> DefaultPreferences],
           now |-> 0, left |-> 0, last |-> NoUpdate, send |-> NoSend]

\* the user sets Redis can hold for one user
RoleKinds ==
    {{}, {"authorized"}, {"admin"}, {"blocked"}, {"authorized", "blocked"}}

\* initialize(): with Redis the three user sets (and the subscribers) are
\* what Redis holds, without Redis they are empty; the bot is running
BotInitialize(redis, roles, subs, prefs) ==
    /\ bot.state = "built"
    /\ ~bot.running
    /\ bot' = [bot EXCEPT
                 !.state = "started",
                 !.running = TRUE,
                 !.redis = redis,
                 !.authorized = {u \in Users : "authorized" \in roles[u]},
                 !.admin = {u \in Users : "admin" \in roles[u]},
                 !.blocked = {u \in Users : "blocked" \in roles[u]},
                 !.subscribers = subs,
                 !.settings = prefs]
    /\ UNCHANGED outsideBot

\* the states Redis can be in when the bot starts; without Redis nothing is
\* loaded
BotConfigs ==
    {[redis |-> TRUE, roles |-> r, subs |-> {}, prefs |-> p] :
        r \in [Users -> RoleKinds],
        p \in {[u \in Users |-> DefaultPreferences]}}
    \cup {[redis |-> FALSE, roles |-> [u \in Users |-> {}], subs |-> {},
           prefs |-> [u \in Users |-> DefaultPreferences]]}

\* timedelta.seconds of current_time - t for a clock that does not go back
Age(now, t) == (now - t) % 86400

\* _check_rate_limit: the records younger than 60 seconds
Purged(u) ==
    SelectSeq(bot.limiter[u], LAMBDA t : Age(bot.now, t) < 60)

\* variant: the limit compared with > instead of >=
RateAdmitsOneMore(u) == Len(Purged(u)) <= MaxRequestsPerMinute

\* _check_rate_limit returns True
RateAdmits(u) == Len(Purged(u)) < MaxRequestsPerMinute

\* variant: the wrapper checks the rate limit before it looks at
\* blocked_users
GateRateFirst(u, h) ==
    IF ~RateAdmits(u) THEN [verdict |-> "limited", counted |-> TRUE]
    ELSE IF u \in bot.blocked THEN [verdict |-> "blocked", counted |-> TRUE]
    ELSE IF h \in Restricted /\ u \notin bot.authorized \cup bot.admin
    THEN [verdict |-> "unauthorized", counted |-> TRUE]
    ELSE [verdict |-> "run", counted |-> TRUE]

\* the wrapper's checks in their order: blocked, rate limit, authorization.
\* counted says whether _check_rate_limit was called.
Gate(u, h) ==
    IF u \in bot.blocked THEN [verdict |-> "blocked", counted |-> FALSE]
    ELSE IF ~RateAdmits(u) THEN [verdict |-> "limited", counted |-> TRUE]
    ELSE IF h \in Restricted /\ u \notin bot.authorized \cup bot.admin
    THEN [verdict |-> "unauthorized", counted |-> TRUE]
    ELSE [verdict |-> "run", counted |-> TRUE]

\* the wrapper of _secure_handler_wrapper handles one update of user u
Handle(u, upd) ==
    /\ bot.running
    /\ bot.left > 0
    /\ LET g == Gate(u, HandlerName(upd))
           run == g.verdict = "run"
           recorded == g.counted /\ RateAdmits(u)
           f == IF run THEN Functionality(upd) ELSE "none"
       IN bot' = [bot EXCEPT
                    !.left = @ - 1,
                    !.limiter[u] = IF ~g.counted THEN @
                                   ELSE IF recorded THEN Append(Purged(u), bot.now)
                                   ELSE Purged(u),
                    !.admitted[u] = IF recorded THEN Append(@, bot.now) ELSE @,
                    !.sessions[u] = IF run THEN @ + 1 ELSE @,
                    !.authorized = IF f = "subscribe" THEN @ \cup {u}
                                   ELSE IF f = "unsubscribe" THEN @ \ {u}
                                   ELSE @,
                    !.subscribers = IF ~bot.redis THEN @
                                    ELSE IF f = "subscribe" THEN @ \cup {u}
                                    ELSE IF f = "unsubscribe" THEN @ \ {u}
                                    ELSE @,
                    !.last = [user |-> u, kind |-> upd.kind, data |-> upd.data,
                              verdict |-> g.verdict, ran |-> f,
                              result |-> IF run THEN HandlerResult(upd)
                                         ELSE "none"]]
    /\ UNCHANGED outsideBot

\* the clock moves on
BotTick ==
    /\ bot.running
    /\ bot.now < MaxBotTicks * BotTickSeconds
    /\ bot' = [bot EXCEPT !.now = @ + BotTickSeconds]
    /\ UNCHANGED outsideBot

\* stop()
BotStop ==
    /\ bot.running
    /\ bot' = [bot EXCEPT !.running = FALSE]
    /\ UNCHANGED outsideBot

\* the opportunities handed to send_opportunity; confidence 0 is an
\* opportunity without the field (opportunity.get('confidence', 0))
Opportunities ==
    {[confidence |-> c, signal_type |-> t] :
        c \in {0, 50, 70, 90}, t \in {"arbitrage", "whale_movement"}}

\* the user_ids argument: None, or a list
NoIds == <<0>>
IdLists == {NoIds, <<1, 2>>, <<2, 1>>, <<2>>}

\* the states Redis can be in when a notifying bot starts
SendConfigs ==
    {[redis |-> TRUE, roles |-> [u \in Users |-> {"authorized"}],
      subs |-> s, prefs |-> p] :
        s \in SUBSET Users, p \in [Users -> StoredPreferences]}
    \cup {[redis |-> FALSE, roles |-> [u \in Users |-> {}], subs |-> {},
           prefs |-> [u \in Users |-> DefaultPreferences]]}

\* the two tests of the loop body on the user's settings
Wanted(opp, prefs) ==
    /\ ~(opp.confidence < prefs.min_confidence)
    /\ opp.signal_type \in prefs.signal_types

\* send_opportunity(opportunity, user_ids) is called: it returns at once
\* unless the bot is running; otherwise the list of users is the argument,
\* or the subscribers in Redis, or the authorized users
SendStart(opp, ids) ==
    /\ bot.state # "absent"
    /\ bot.left > 0
    /\ bot.send.pc \in {"idle", "returned"}
    /\ bot' = [bot EXCEPT
                 !.left = @ - 1,
                 !.send =
                    IF ~bot.running
                    THEN [NoSend EXCEPT !.pc = "returned", !.opp = opp,
                                        !.calls = bot.send.calls + 1]
                    ELSE [NoSend EXCEPT
                            !.pc = "loop", !.opp = opp,
                            !.calls = bot.send.calls + 1,
                            !.ids = IF ids # NoIds THEN ids
                                    ELSE IF bot.redis
                                    THEN SortedSeq(bot.subscribers)
                                    ELSE SortedSeq(bot.authorized),
                            !.todo = IF ids # NoIds THEN ids
                                     ELSE IF bot.redis
                                     THEN SortedSeq(bot.subscribers)
                                     ELSE SortedSeq(bot.authorized)]]
    /\ UNCHANGED outsideBot

\* variant: the TelegramError is not caught and ends the call
SendToNextUserAborting(outcome) ==
    /\ bot.send.pc = "loop"
    /\ bot.send.todo # <<>>
    /\ LET u == Head(bot.send.todo)
           wanted == Wanted(bot.send.opp, bot.settings[u])
       IN bot' = [bot EXCEPT
                    !.send.todo = Tail(@),
                    !.send.pc = IF wanted /\ outcome # "ok" THEN "raised"
                                ELSE @,
                    !.send.sent = IF wanted /\ outcome = "ok"
                                  THEN Append(@, u) ELSE @,
                    !.send.failed = IF wanted /\ outcome # "ok"
                                    THEN @ \cup {u} ELSE @]
    /\ UNCHANGED outsideBot

\* one pass of the for loop: the user's settings decide whether the message
\* is sent; send_message returns, or raises a TelegramError, which is
\* logged, and a user who blocked the bot is removed from the subscribers
SendToNextUser(outcome) ==
    /\ bot.send.pc = "loop"
    /\ bot.send.todo # <<>>
    /\ LET u == Head(bot.send.todo)
           wanted == Wanted(bot.send.opp, bot.settings[u])
           gone == wanted /\ outcome = "blocked"
       IN bot' = [bot EXCEPT
                    !.send.todo = Tail(@),
                    !.send.sent = IF wanted /\ outcome = "ok"
                                  THEN Append(@, u) ELSE @,
                    !.send.failed = IF wanted /\ outcome # "ok"
                                    THEN @ \cup {u} ELSE @,
                    !.authorized = IF gone THEN @ \ {u} ELSE @,
                    !.subscribers = IF gone /\ bot.redis THEN @ \ {u} ELSE @]
    /\ UNCHANGED outsideBot

\* the loop is over and send_opportunity returns
SendReturns ==
    /\ bot.send.pc = "loop"
    /\ bot.send.todo = <<>>
    /\ bot' = [bot EXCEPT !.send.pc = "returned"]
    /\ UNCHANGED outsideBot

\* updates arriving at a started bot
BotNext ==
    \/ \E c \in BotConfigs : BotInitialize(c.redis, c.roles, c.subs, c.prefs)
    \/ \E u \in Users, upd \in Updates : Handle(u, upd)

\* one user's requests over time, at a bot without Redis
RateNext ==
    \/ BotInitialize(FALSE, [u \in Users |-> {}], {},
                     [u \in Users |-> DefaultPreferences])
    \/ Handle(1, [kind |-> "command", data |-> "start"])
    \/ BotTick

\* notifications, with the bot started and stopped around them
SendNext ==
    \/ \E c \in SendConfigs : BotInitialize(c.redis, c.roles, c.subs, c.prefs)
    \/ \E opp \in Opportunities, ids \in IdLists : SendStart(opp, ids)
    \/ \E outcome \in {"ok", "blocked", "failed"} : SendToNextUser(outcome)
    \/ SendReturns
    \/ BotStop

(* ------------------- scripts/sqlite_to_timescale.py -------------------- *)

\* rows per table in the SQLite file, runs of the script, faults of the
\* database during the runs
MaxRows == 3
MaxRuns == 2
MaxMigFaults == 1

\* BATCH_SIZE, read from the environment
BATCH_SIZE == 2

TABLES == <<"market_data", "onchain_events", "alpha_opportunities">>

\* a row, reduced to the columns of the target table's unique key and the rest
MigRows == {[id |-> 1, rest |-> "a"], [id |-> 1, rest |-> "b"],
            [id |-> 2, rest |-> "a"]}

RowLists(n) == UNION {[1..k -> MigRows] : k \in 0..n}

\* the target's unique key: a row conflicts with a stored row of the same key
Conflicts(stored, row) == \E s \in stored : s.id = row.id

RECURSIVE InsertOnConflictDoNothing(_, _)
\* a plain INSERT of the batch: a conflicting row is a unique violation, and
\* the statement fails as a whole
InsertPlain(stored, batch) ==
    LET all == InsertOnConflictDoNothing(stored, batch).rows
    IN  IF \/ \E i \in DOMAIN batch : Conflicts(stored, batch[i])
           \/ \E i, j \in DOMAIN batch : i # j /\ batch[i].id = batch[j].id
        THEN [rows |-> stored, error |-> "conflict"]
        ELSE [rows |-> all, error |-> "none"]

\* INSERT ... ON CONFLICT DO NOTHING, row by row in the order of the batch
InsertOnConflictDoNothing(stored, batch) ==
    IF batch = <<>> THEN [rows |-> stored, error |-> "none"]
    ELSE InsertOnConflictDoNothing(
            IF Conflicts(stored, Head(batch)) THEN stored
            ELSE stored \cup {Head(batch)}, Tail(batch))

\* conn_pg.executemany(insert_sql, batch)
Executemany(stored, batch) == InsertOnConflictDoNothing(stored, batch)

\* cursor.fetchmany(BATCH_SIZE) after pos rows were fetched
Fetchmany(rows, pos) == SubSeq(rows, pos + 1, Min(pos + BATCH_SIZE, Len(rows)))

MigrationAbsent == mig = [pc |-> "absent"]

\* the script about to run: the SQLite file, if there is one, and the target
\* tables as an earlier import left them
MigrationInit ==
    \E exists \in BOOLEAN, rows \in RowLists(MaxRows),
       other \in RowLists(1), stored \in SUBSET {[id |-> 1, rest |-> "b"]} :
        mig = [pc |-> "start", exists |-> exists,
               source |-> [t \in 1..Len(TABLES) |-> IF t = 1 THEN rows ELSE other],
               target |-> [t \in 1..Len(TABLES) |-> IF t = 3 THEN {} ELSE stored],
               table |-> 1, pos |-> 0, sqlite |-> "none", pool |-> "none",
               both |-> FALSE, outcome |-> "none", faulted |-> FALSE,
               runs |-> 0, oks |-> 0, faults |-> MaxMigFaults]

\* main() up to sqlite3.connect
MigMain ==
    /\ mig.pc = "start"
    /\ mig' = IF mig.exists
              THEN [mig EXCEPT !.pc = "connected", !.sqlite = "open"]
              ELSE [mig EXCEPT !.pc = "done", !.outcome = "missing",
                               !.runs = @ + 1]
    /\ UNCHANGED outsideMigration

\* asyncpg.create_pool, which is awaited outside the try
MigCreatePool(ok) ==
    /\ mig.pc = "connected"
    /\ ok \/ mig.faults > 0
    /\ mig' = IF ok
              THEN [mig EXCEPT !.pc = "try", !.pool = "open", !.both = TRUE,
                               !.table = 1, !.pos = 0]
              ELSE [mig EXCEPT !.pc = "done", !.outcome = "error",
                               !.faulted = TRUE, !.faults = @ - 1,
                               !.runs = @ + 1]
    /\ UNCHANGED outsideMigration

\* migrate_table: one batch fetched and inserted
MigrateBatch ==
    /\ mig.pc = "try"
    /\ mig.table <= Len(TABLES)
    /\ LET batch == Fetchmany(mig.source[mig.table], mig.pos)
           res == Executemany(mig.target[mig.table], batch)
       IN  /\ batch # <<>>
           /\ mig' = IF res.error = "none"
                     THEN [mig EXCEPT !.target[mig.table] = res.rows,
                                      !.pos = @ + Len(batch)]
                     ELSE [mig EXCEPT !.pc = "finally", !.outcome = "error"]
    /\ UNCHANGED outsideMigration

\* migrate_table: no rows left, the connection goes back to the pool
MigrateTableReturns ==
    /\ mig.pc = "try"
    /\ mig.table <= Len(TABLES)
    /\ Fetchmany(mig.source[mig.table], mig.pos) = <<>>
    /\ mig' = [mig EXCEPT !.table = @ + 1, !.pos = 0]
    /\ UNCHANGED outsideMigration

\* main(): the loop over TABLES ends
MigrateAllDone ==
    /\ mig.pc = "try"
    /\ mig.table > Len(TABLES)
    /\ mig' = [mig EXCEPT !.pc = "finally", !.outcome = "ok"]
    /\ UNCHANGED outsideMigration

\* the connection is lost or the task is cancelled inside migrate_table,
\* after the first k rows of the batch at hand were stored
MigrateFails(k, how) ==
    /\ mig.pc = "try"
    /\ mig.table <= Len(TABLES)
    /\ mig.faults > 0
    /\ LET batch == Fetchmany(mig.source[mig.table], mig.pos)
       IN  /\ k <= Len(batch)
           /\ mig' = [mig EXCEPT
                  !.target[mig.table] =
                      Executemany(@, SubSeq(batch, 1, k)).rows,
                  !.pc = "finally", !.outcome = how, !.faulted = TRUE,
                  !.faults = @ - 1]
    /\ UNCHANGED outsideMigration

\* main(): the finally block
MigFinally ==
    /\ mig.pc = "finally"
    /\ mig' = [mig EXCEPT !.pool = "closed", !.sqlite = "closed",
                          !.pc = "done", !.runs = @ + 1,
                          !.oks = IF mig.outcome = "ok" THEN @ + 1 ELSE @]
    /\ UNCHANGED outsideMigration

\* the script is run again over the same SQLite file
MigRerun ==
    /\ mig.pc = "done"
    /\ mig.runs < MaxRuns
    /\ mig' = [mig EXCEPT !.pc = "start", !.sqlite = "none", !.pool = "none",
                          !.both = FALSE, !.outcome = "none",
                          !.faulted = FALSE, !.table = 1, !.pos = 0]
    /\ UNCHANGED outsideMigration

MigrationNext ==
    \/ MigMain
    \/ \E ok \in BOOLEAN : MigCreatePool(ok)
    \/ MigrateBatch
    \/ MigrateTableReturns
    \/ MigrateAllDone
    \/ \E k \in 0..BATCH_SIZE, how \in {"error", "cancelled"} : MigrateFails(k, how)
    \/ MigFinally
    \/ MigRerun

(* --------------------------- specification ---------------------------- *)
\* the steps a consumer takes when nothing fails under it
ConsumerStep(c) ==
    \/ DbInitialize(c) \/ Connect(c) \/ ListenDisconnect(c) \/ Wake(c)
    \/ OnMessage(c) \/ Insert(c) \/ Ack(c) \/ Reject(c)

\* infrastructure failures and shutdown
Fault(c) ==
    \/ DbInitializeFail(c) \/ ConnectFail(c) \/ ConnectionLost(c)
    \/ InsertFail(c)
    \/ CancelRun(c) \/ CancelInsert(c) \/ CancelAck(c)

Next ==
    \/ \E p \in Payloads : Publish(p)
    \/ \E c \in Consumers : Deliver(c) \/ ConsumerStep(c) \/ Fault(c)

\* the pipeline fed by hand-written bodies: no runner process exists
ToolsAbsent == BotAbsent /\ MigrationAbsent

RestAbsent ==
    BusAbsent /\ DefiAbsent /\ DbAbsent /\ InfisicalAbsent /\ ToolsAbsent

Startup == Init /\ RunnerAbsent /\ ScanAbsent /\ FactoryAbsent /\ RestAbsent

Spec ==
    /\ Startup
    /\ [][Next]_allVars

\* One consumer instance alone on the queue (the other is never started).
\* The event loop runs the consumer whenever it can take a step and the broker
\* delivers to it when it has free prefetch.  Failures are transient: their
\* number is bounded, and none is forced to happen; neither are publishing
\* and cancellation.
Solo == {1}

SoloNext ==
    \/ \E p \in Payloads : Publish(p)
    \/ \E c \in Solo : Deliver(c) \/ ConsumerStep(c) \/ Fault(c)

FairSpec ==
    /\ Startup
    /\ [][SoloNext]_allVars
    /\ \A c \in Solo : WF_vars(ConsumerStep(c)) /\ WF_vars(Deliver(c))

\* a runner alone: it publishes to a queue nobody consumes
RunnerStartup ==
    Init /\ RunnerInit /\ ScanAbsent /\ FactoryAbsent /\ RestAbsent

RunnerSpec ==
    /\ RunnerStartup
    /\ [][RunnerNext]_allVars

\* one ContractScout.scan() call
ScanStartup ==
    Init /\ RunnerAbsent /\ ScanInit /\ FactoryAbsent /\ RestAbsent

ScanSpec ==
    /\ ScanStartup
    /\ [][ScanNext]_allVars

\* calls of the signal factory
FactoryStartup ==
    Init /\ RunnerAbsent /\ ScanAbsent /\ FactoryInit /\ RestAbsent

FactorySpec ==
    /\ FactoryStartup
    /\ [][FactoryNext]_allVars

\* A runner feeding one consumer through the queue, with nothing failing.
\* The event loop of each process runs it whenever it can take a step, and
\* the broker delivers whenever the consumer has free prefetch.
RunnerLoop ==
    \/ RunnerStart \/ InitializeReturns
    \/ \E n \in 0..MaxBatch : ScanReturns(n)
    \/ PublishReturns \/ SleepReturns

Consume(c) ==
    \/ DbInitialize(c) \/ Connect(c) \/ OnMessage(c) \/ Insert(c) \/ Ack(c)

PipelineNext ==
    \/ RunnerLoop
    \/ \E c \in Solo : Deliver(c) \/ Consume(c)

PipelineSpec ==
    /\ RunnerStartup
    /\ [][PipelineNext]_allVars
    /\ WF_allVars(RunnerLoop)
    /\ \A c \in Solo : WF_allVars(Consume(c)) /\ WF_allVars(Deliver(c))

\* the parts of the pipeline and the scouts, all idle
Idle == Init /\ RunnerAbsent /\ ScanAbsent /\ FactoryAbsent

\* the same with no bus, DeFi scan, db module or secret manager either
Quiet == Idle /\ BusAbsent /\ DefiAbsent /\ DbAbsent /\ InfisicalAbsent

\* A scout's bus client.  Its reconnect loop runs whenever it can; connection
\* losses and failed attempts are bounded and none is forced to happen, nor
\* is any publish call.
BusStartup ==
    Idle /\ BusInit /\ DefiAbsent /\ DbAbsent /\ InfisicalAbsent /\ ToolsAbsent

BusSpec ==
    /\ BusStartup
    /\ [][BusNext]_allVars
    /\ WF_allVars(BusReconnect)

\* DeFiScout.scan() calls
DefiStartup ==
    Idle /\ BusAbsent /\ DefiInit /\ DbAbsent /\ InfisicalAbsent /\ ToolsAbsent

DefiSpec ==
    /\ DefiStartup
    /\ [][DefiNext]_allVars

\* tasks of one process calling init_db()
DbStartup ==
    Idle /\ BusAbsent /\ DefiAbsent /\ DbInit /\ InfisicalAbsent /\ ToolsAbsent

DbSpec ==
    /\ DbStartup
    /\ [][DbNext]_allVars

\* callers of the secret manager, and callers of the config
InfisicalStartup ==
    Idle /\ BusAbsent /\ DefiAbsent /\ DbAbsent /\ InfisicalInit /\ ToolsAbsent

SecretsSpec ==
    /\ InfisicalStartup
    /\ [][SecretsNext]_allVars

ConfigSpec ==
    /\ InfisicalStartup
    /\ [][ConfigNext]_allVars

\* the Telegram bot: updates of two users; one user's burst of requests;
\* notifications
BotStartup == Quiet /\ BotBuilt(MaxUpdates) /\ MigrationAbsent

BotSpec ==
    /\ BotStartup
    /\ [][BotNext]_allVars

RateStartup == Quiet /\ BotBuilt(MaxBurst) /\ MigrationAbsent

RateSpec ==
    /\ RateStartup
    /\ [][RateNext]_allVars

SendStartup == Quiet /\ BotBuilt(MaxUpdates) /\ MigrationAbsent

SendSpec ==
    /\ SendStartup
    /\ [][SendNext]_allVars

\* the migration script, run and run again
MigrationStartup == Quiet /\ BotAbsent /\ MigrationInit

MigrationSpec ==
    /\ MigrationStartup
    /\ [][MigrationNext]_allVars

(* ------------------------------ claims -------------------------------- *)
Rows == {store[i] : i \in 1..Len(store)}
Processing(c) == pc[c] \in {"insert", "exit"}
\* a body that parses and carries id, scout_name, symbol and timestamp
WellFormed(p) ==
    p.json /\ {"id", "scout_name", "symbol", "timestamp"} \subseteq p.keys
\* a body that parses and carries every field of the wire format
Complete(p) ==
    p.json /\ {"id", "scout_name", "signal_type", "symbol", "confidence",
               "data", "timestamp"} \subseteq p.keys
\* a body that parses and misses one of the four required fields
MissingRequired(p) ==
    p.json /\ ~({"id", "scout_name", "symbol", "timestamp"} \subseteq p.keys)
RowsWithId(id) == {i \in 1..Len(store) : store[i].id = id}
\* the body of message m, an unparseable body while m is not published
Body(m) ==
    IF m \in 1..Len(msgs) THEN msgs[m]
    ELSE [json |-> FALSE, keys |-> {}, id |-> 0, v |-> 0]

\* C1: a well-formed message (id, scout_name, symbol, timestamp present) that
\* has been acknowledged has a row with its id in the Store.
C1_AckedImpliesStored ==
    \A m \in acked : WellFormed(msgs[m]) => msgs[m].id \in StoredIds

\* C2: when the insert for a message raised a storage-layer error, the step
\* that ends on_message does not acknowledge the message.
C2_StorageErrorNotAcked ==
    [][\A c \in Consumers :
          (pc[c] = "exit" /\ result[c] = "OperationalError")
              => cur[c] \notin acked']_vars

\* C3: every complete signal message placed on the queue is eventually
\* persisted, as long as no consumer is shut down or has left run().
C3_EventuallyPersisted ==
    \A m \in 1..MaxMsgs :
        Complete(Body(m))
            ~> (\/ Body(m).id \in StoredIds
                \/ \E c \in Consumers : pc[c] \in {"cancelled", "crashed"})

\* C4: however often, and to whichever consumers, a signal is delivered, the
\* Store holds exactly one row per signal id.
C4_OneRowPerId ==
    \A i, j \in 1..Len(store) : store[i].id = store[j].id => i = j

\* C4 witness: a message was delivered again after its row was committed,
\* handled to the end and acknowledged, and the Store has one row for its id.
C4_Witness ==
    \E m \in acked \cap redelivered :
        /\ <<"error", "IntegrityError", m>> \in log
        /\ Cardinality(RowsWithId(msgs[m].id)) = 1

\* C5: handling a redelivered message whose id is already stored takes the
\* success path: unless the Store failed or the task was cancelled, the try
\* block ends without an error outcome and nothing is logged as an error.
C5_RedeliverySilent ==
    \A c \in Consumers :
        (/\ pc[c] = "exit"
         /\ cur[c] \in redelivered \cap unacked[c]
         /\ Complete(msgs[cur[c]])
         /\ msgs[cur[c]].id \in StoredIds
         /\ result[c] \notin {"OperationalError", "cancelled"})
        => /\ result[c] = "ok"
           /\ <<"error", "IntegrityError", cur[c]>> \notin log

\* C6: a payload missing one of id, scout_name, symbol, timestamp goes
\* straight to the end of on_message without an insert, is acknowledged
\* there, and leaves the consumer listening for the next message; no row
\* ever comes from such a payload.
C6_MalformedAckedAndDiscarded ==
    /\ [](\A m \in 1..Len(msgs) :
             MissingRequired(msgs[m]) => RowOf(msgs[m]) \notin Rows)
    /\ [][\A c \in Consumers :
            /\ (/\ pc[c] = "listening" /\ pc'[c] # "listening"
                /\ inbox[c] # <<>> /\ faults' = faults
                /\ MissingRequired(msgs[Head(inbox[c])]))
               => /\ pc'[c] = "exit" /\ cur'[c] = Head(inbox[c])
                  /\ store' = store
            /\ (/\ pc[c] = "exit" /\ pc'[c] # "exit" /\ conn[c]
                /\ faults' = faults
                /\ MissingRequired(msgs[cur[c]]))
               => /\ cur[c] \in acked' /\ cur[c] \notin unacked'[c]
                  /\ pc'[c] = "listening"
                  /\ store' = store]_vars

\* C6 witness: one consumer alone acknowledged a payload missing a required
\* field and then stored and acknowledged the valid message behind it.
C6_Witness ==
    \E m1, m2 \in acked :
        /\ m1 < m2
        /\ MissingRequired(msgs[m1])
        /\ <<"warning", "malformed", m1>> \in log
        /\ Complete(msgs[m2]) /\ RowOf(msgs[m2]) \in Rows
        /\ store = <<RowOf(msgs[m2])>>
        /\ pc[2] = "init" /\ pc[1] = "listening" /\ faults = 0

\* C7: a consumer instance holds at most one delivered message at a time:
\* while it processes one, no second message has been delivered to it, and
\* the one it processes is the one the broker holds unacknowledged for it.
C7_OneMessageAtATime ==
    \A c \in Consumers :
        /\ Len(inbox[c]) + (IF Processing(c) THEN 1 ELSE 0) <= 1
        /\ Cardinality(unacked[c]) <= 1
        /\ (Processing(c) /\ conn[c]) => unacked[c] = {cur[c]}
        /\ (inbox[c] # <<>> /\ conn[c]) => unacked[c] = {Head(inbox[c])}

\* C7 witness: a consumer is processing a message while another message
\* waits in the queue, undelivered.
C7_Witness ==
    \E c \in Consumers :
        /\ Processing(c) /\ conn[c] /\ cur[c] = 1
        /\ ready = <<2>>
        /\ \A d \in Consumers \ {c} : pc[d] = "init"

\* C8: every backoff is the fixed 10 seconds; a consumer whose connection
\* dropped gets back to listening on an open connection unless it is shut
\* down; and a message that was acknowledged never has two rows.
C8_ReconnectAndResume ==
    /\ [](\A c \in Consumers : pc[c] = "backoff" => sleep[c] = 10)
    /\ [](\A m \in acked : Cardinality(RowsWithId(msgs[m].id)) <= 1)
    /\ \A c \in Consumers :
          (pc[c] \in {"listening", "insert", "exit", "backoff"} /\ ~conn[c])
              ~> (\/ pc[c] = "listening" /\ conn[c]
                  \/ pc[c] = "cancelled")

\* C8 witness: one consumer alone lost its connection after committing a
\* row and before the ack, reconnected, got the message again, acknowledged
\* it and listens; the Store has the one row.
C8_Witness ==
    /\ pc[1] = "listening" /\ conn[1] /\ pc[2] = "init"
    /\ faults = 1
    /\ 1 \in acked \cap redelivered
    /\ <<"debug", "stored", 1>> \in log
    /\ <<"error", "IntegrityError", 1>> \in log
    /\ Len(store) = 1

\* C9: no infrastructure failure ends run(): a consumer never leaves run()
\* with an exception.
C9_NeverFatal ==
    \A c \in Consumers : pc[c] # "crashed"

\* C10: a message that was being processed at shutdown is acknowledged after
\* a completed insert or left for redelivery; it is never rejected without
\* requeue while its insert was abandoned.
C10_NoLossAtShutdown ==
    \A m \in rejected : msgs[m].id \in StoredIds

LoopStates == {"scan", "publish", "sleep"}

\* C11: an exception raised by scan() does not end the runner: the loop
\* catches it and goes on, so main() never unwinds because scan() raised.
C11_ScanFailureSurvived ==
    raisedBy = "scan" => rpc \in LoopStates /\ nCleanup = 0

\* C12: a failing publish_opportunities does not end the runner: the loop
\* logs and goes on to the sleep, and each call receives exactly the list
\* the scan of the same iteration returned.
C12_PublishFailureSurvived ==
    /\ rpc = "publish" => arg = scanned
    /\ raisedBy = "publish" => rpc \in LoopStates /\ nCleanup = 0

\* C13: once initialize() has returned, however the loop ends (cancellation,
\* interrupt, an exception from scan, publish or sleep) scout.cleanup() is
\* called exactly once, and once a shutdown signal has arrived no scan() is
\* started.
C13_CleanupExactlyOnce ==
    /\ [](nCleanup <= 1)
    /\ [](rpc \in LoopStates => initDone /\ nCleanup = 0)
    /\ []((initDone /\ rpc \in {"cleanup", "closed"}) => nCleanup = 1)
    /\ [](shutdown => rpc \in {"cleanup", "closed"})
    /\ [][shutdown => iter' = iter]_allVars

\* C13 witness: main() was cancelled during its second iteration, cleanup
\* ran once and main() has ended.
C13_Witness ==
    /\ rpc = "closed" /\ raisedBy = "CancelledError" /\ shutdown
    /\ iter = 2 /\ nCleanup = 1

\* the moves of main() between its positions
LifecycleSteps ==
    {<<"created", "initializing">>, <<"initializing", "scan">>,
     <<"initializing", "closed">>, <<"scan", "publish">>,
     <<"publish", "sleep">>, <<"sleep", "scan">>, <<"cleanup", "closed">>}
    \cup (LoopStates \X {"cleanup"})

\* C14: a runner moves Created, Initializing, Running, Draining, Closed:
\* no scan() before initialize() has returned, each iteration is scan then
\* publish then sleep, and once cleanup has started nothing is scanned or
\* published.
C14_Lifecycle ==
    /\ [](iter > 0 => initDone)
    /\ [][rpc' # rpc => <<rpc, rpc'>> \in LifecycleSteps]_allVars
    /\ [][(rpc \in {"cleanup", "closed"})
            => UNCHANGED <<iter, msgs, arg>>]_allVars

\* C14 witness: the loop is in its second scan, after a first scan, publish
\* and sleep.
C14_Witness ==
    /\ rpc = "scan" /\ iter = 2 /\ initDone
    /\ Len(msgs) = 1 /\ published = <<FirstSignalId + 1>>
    /\ nCleanup = 0

\* both lookups of address a returned and GoPlus gave a usable result
Fetched(a) ==
    /\ fetch[a]["goplus"] = "ok"
    /\ fetch[a]["etherscan"] \in {"ok", "empty"}

\* C15: whatever subset of the lookups raises, scan() does not raise, and it
\* returns the signals of exactly the addresses whose lookups succeeded.
C15_ScanIsolation ==
    /\ scanpc # "raised"
    /\ scanpc = "returned" => scanOut = SortedSeq({a \in Addresses : Fetched(a)})

\* C15 witness: the GoPlus lookup of address 2 raised and scan() returned
\* the signals of addresses 1 and 3.
C15_Witness ==
    /\ scanpc = "returned"
    /\ fetch[2]["goplus"] = "raised"
    /\ scanOut = <<1, 3>>

\* C16: when scan() has returned, no fetch task it started is still running.
C16_JoinedBeforeReturn ==
    scanpc = "returned" =>
        \A a \in Addresses, f \in Sources : fetch[a][f] # "running"

\* C17: the confidence stored in a signal lies in [0, 1]: an argument below
\* 0 is stored as 0, one above 1 as 1, one inside the range unchanged.
C17_ConfidenceClamped ==
    sig.made =>
        LET c == Confidence(req.scout, req.x)
        IN /\ sig.confidence \in 0..100
           /\ c < 0 => sig.confidence = 0
           /\ c > 100 => sig.confidence = 100
           /\ c \in 0..100 => sig.confidence = c

\* C17 witness: ContractScout computed 1.5 from the risk score -50 and the
\* signal stores 1.
C17_Witness ==
    /\ sig.made /\ req.scout = "contract" /\ req.x = -50
    /\ Confidence(req.scout, req.x) = 150
    /\ sig.confidence = 100

\* C18: a signal created with a validity of N minutes (5, 10, 15 or 60) has
\* expires_at after timestamp, by exactly N minutes.
C18_ExpiryOffset ==
    sig.made =>
        /\ req.minutes \in {5, 10, 15, 60}
        /\ sig.expires_at > sig.timestamp
        /\ sig.expires_at - sig.timestamp = req.minutes * 60

\* C18 witness: ContractScout's signal created at second 1 expires at second
\* 3601.
C18_Witness ==
    /\ sig.made /\ req.scout = "contract" /\ req.minutes = 60
    /\ sig.timestamp = 1 /\ sig.expires_at = 3601

\* C19: no step changes a stored row: the rows the Store holds stay, each
\* with every field as it was.
C19_RowsNeverUpdated ==
    [][\A i \in 1..Len(store) : Len(store') >= i /\ store'[i] = store[i]]_vars

\* C19 witness: a message with a stored id and other content went through
\* the insert and was acknowledged, and the row still has the first content.
C19_Witness ==
    \E m \in acked :
        /\ Complete(msgs[m])
        /\ <<"error", "IntegrityError", m>> \in log
        /\ \E i \in 1..Len(store) :
              store[i].id = msgs[m].id /\ store[i].v # msgs[m].v

\* messages on the bus that carry signal id
MsgsWithId(id) == {m \in 1..Len(msgs) : msgs[m].id = id}
SignalIds == (FirstSignalId + 1)..(FirstSignalId + MaxSignals)

\* C20: in each iteration the bus gets one publish per signal of that
\* iteration's scan (none for an empty scan), and a signal a scan returned
\* ends as exactly one message and exactly one row with its id.
C20_OnePublishOneRow ==
    /\ [](rpc = "publish" => Len(msgs) + Len(scanned) = created)
    /\ [](rpc = "sleep" => published = scanned /\ Len(msgs) = created)
    /\ [](\A id \in SignalIds :
            /\ Cardinality(MsgsWithId(id)) <= 1
            /\ Cardinality(RowsWithId(id)) <= 1)
    /\ \A id \in SignalIds :
          (rpc = "sleep" /\ scanned = <<id>>)
              ~> (/\ Cardinality(MsgsWithId(id)) = 1
                  /\ Cardinality(RowsWithId(id)) = 1
                  /\ MsgsWithId(id) \subseteq acked)

\* C20 witness: the first scan returned one signal; one message and one row
\* carry its id and nothing else was published or stored.
C20_Witness ==
    /\ scanned = <<FirstSignalId + 1>> /\ iter = 1 /\ rpc = "sleep"
    /\ Len(msgs) = 1 /\ msgs[1].id = FirstSignalId + 1
    /\ Len(store) = 1 /\ store[1].id = FirstSignalId + 1
    /\ acked = {1}

\* C21: a publish call made while the bus is disconnected returns an error at
\* once and is never left waiting, the wait before a reconnection attempt is
\* always the fixed backoff, a publish call made while connected succeeds,
\* and a bus that lost its connection is connected again eventually, so
\* that the calls made after that succeed.
C21_FailFastThenReconnect ==
    /\ [](~bus.pending)
    /\ [](bus.state = "backoff" => bus.sleep = 10)
    /\ [][(Len(bus'.outcomes) = Len(bus.outcomes) + 1) =>
            bus'.outcomes[Len(bus'.outcomes)] =
               (IF bus.state = "backoff" THEN "error" ELSE "ok")]_allVars
    /\ (bus.state = "backoff") ~> (bus.state = "connected")

\* a call failed during the backoff and the next call, made after the
\* reconnection, succeeded
C21_Witness ==
    /\ bus.state = "connected"
    /\ bus.losses = 1
    /\ bus.outcomes = <<"ok", "error", "ok">>

\* a payload on_message cannot store: not valid JSON, or JSON with the four
\* identifying fields but without one of the fields the INSERT needs
Unstorable(p) ==
    \/ ~p.json
    \/ /\ {"id", "scout_name", "symbol", "timestamp"} \subseteq p.keys
       /\ ~({"signal_type", "confidence", "data"} \subseteq p.keys)

\* C22: a message whose payload is not valid JSON, or has id, scout_name,
\* symbol and timestamp but lacks signal_type, confidence or data, never
\* produces a Store row; on_message leaves its try block with the error
\* caught, and on leaving the context manager the message is acknowledged,
\* the Store is untouched and the consumer is listening for the next message.
C22_UnstorableAcknowledged ==
    /\ [](\A m \in DOMAIN msgs :
            Unstorable(msgs[m]) => RowOf(msgs[m]) \notin Rows)
    /\ [](\A c \in Consumers :
            (pc[c] = "exit" /\ cur[c] \in DOMAIN msgs
               /\ Unstorable(msgs[cur[c]]) /\ result[c] # "cancelled") =>
              result[c] \in {"json_error", "KeyError"})
    /\ [][\A c \in Consumers :
            (pc[c] = "exit" /\ pc'[c] # "exit" /\ conn[c] /\ faults' = faults
               /\ cur[c] \in DOMAIN msgs /\ Unstorable(msgs[cur[c]])) =>
              (cur[c] \in acked' /\ pc'[c] = "listening" /\ store' = store)]_vars

\* a message that is not JSON and a message without signal_type were both
\* acknowledged, one after the other, and nothing was stored
C22_Witness ==
    /\ \E m1, m2 \in acked :
         /\ m1 < m2
         /\ ~msgs[m1].json
         /\ msgs[m2].json /\ "signal_type" \notin msgs[m2].keys
         /\ {"id", "scout_name", "symbol", "timestamp"} \subseteq msgs[m2].keys
    /\ store = <<>>
    /\ \A c \in Consumers : pc[c] \in {"listening", "off"}

\* C23: when initialize() raises, main() ends with the exception and
\* cleanup() is never called; cleanup() is called only in runs where
\* initialize() returned.
C23_NoCleanupWhenInitializeRaises ==
    /\ raisedBy = "initialize" => (rpc = "closed" /\ nCleanup = 0 /\ ~initDone)
    /\ nCleanup > 0 => initDone
    /\ (rpc = "closed" /\ ~initDone) => raisedBy = "initialize"

\* initialize() raised and main() is over without a cleanup() call
C23_Witness ==
    /\ kind \in Kinds
    /\ rpc = "closed"
    /\ raisedBy = "initialize"
    /\ nCleanup = 0
    /\ iter = 0

C25_RiskTypeAndConfidence ==
    (sig.made /\ req.scout = "contract") =>
        LET r == req.x
        IN /\ ~req.given => r = 100
           /\ sig.signal_type = "high_risk_contract" <=> r > 60
           /\ sig.signal_type = "low_risk_contract" <=> r <= 60
           /\ sig.passed = (IF 100 - r > 10 THEN 100 - r ELSE 10)
           /\ sig.signal_type = "high_risk_contract" =>
                 /\ sig.passed >= 10 /\ sig.passed < 40
                 /\ sig.confidence >= 10 /\ sig.confidence < 40

\* C25 witness: GoPlus gave no total_score, the risk score defaulted to 100
\* and the signal is a high_risk_contract with confidence 0.1.
C25_Witness ==
    /\ sig.made /\ req.scout = "contract" /\ ~req.given
    /\ sig.signal_type = "high_risk_contract"
    /\ sig.passed = 10 /\ sig.confidence = 10

\* C26: the list DeFiScout.scan builds and returns never holds more than 2
\* signals, and the tvl_usd of each is at least the configured min_tvl.
C26_DefiAtMostTwoAboveMinTvl ==
    /\ Len(defi.out) <= 2
    /\ \A i \in DOMAIN defi.out : defi.out[i] >= defi.minTvl

\* C26 witness: of two candidates the one below min_tvl was skipped and the
\* one exactly at min_tvl was returned.
C26_Witness ==
    /\ defi.pc = "returned"
    /\ defi.n = 2
    /\ defi.minTvl = 10
    /\ defi.out = <<10>>

\* C27: however many tasks call init_db(), and however often, db.initialize()
\* runs to completion at most once in the process, and a call made when the
\* flag is set starts no db.initialize().
C27_InitializedOnce ==
    /\ [](dbm.done <= 1)
    /\ [][\A t \in Tasks :
            (dbm.initialized /\ dbm.task[t] = "idle"
               /\ dbm'.task[t] # "idle") =>
              (dbm'.task[t] = "returned" /\ dbm'.started = dbm.started)]_allVars

\* C28: a fetch_secrets call made without force_refresh less than cache_ttl
\* after the last successful fetch makes no HTTP request and returns the
\* cache; a fetch that fails returns the process environment and leaves
\* secrets_cache and last_fetch as they were.
C28_CacheServedWithinTtl ==
    [][(inf'.calls = inf.calls + 1 /\ inf'.ret.op = "fetch") =>
         /\ (~inf'.ret.force /\ inf.fetched
               /\ inf.now - inf.lastFetch < 300) =>
              (/\ ~inf'.ret.http
               /\ inf'.ret.out = inf.cache
               /\ inf'.cache = inf.cache /\ inf'.lastFetch = inf.lastFetch)
         /\ inf'.ret.from = "env" =>
              (/\ inf'.ret.out = inf.env
               /\ inf'.cache = inf.cache /\ inf'.lastFetch = inf.lastFetch)
      ]_allVars

\* C29: inject_secrets_to_env leaves every environment variable that exists
\* as it is, sets only variables that were absent, each to its secret, and
\* returns the number of variables it added.
C29_InjectNeverOverwrites ==
    [][(inf'.calls = inf.calls + 1 /\ inf'.ret.op = "inject") =>
         /\ \A k \in Keys :
               inf.env[k] # "unset" => inf'.env[k] = inf.env[k]
         /\ \A k \in Keys :
               inf.env[k] = "unset" => inf'.env[k] = inf'.ret.out[k]
         /\ inf'.ret.count =
               Cardinality({k \in Keys : inf.env[k] = "unset"
                                           /\ inf'.env[k] # "unset"})
      ]_allVars

\* C29 witness: the first call fetched secrets for A and B while A was set
\* in the environment to another value; A kept its value, B was added and
\* the call returned 1.
C29_Witness ==
    /\ inf.calls = 1
    /\ inf.ret.op = "inject" /\ inf.ret.from = "fresh"
    /\ inf.ret.out = [k \in Keys |-> "x"]
    /\ inf.env = [k \in Keys |-> IF k = "A" THEN "1" ELSE "x"]
    /\ inf.ret.count = 1

\* C30: every get(key, default, cast_type) call returns the environment
\* value of the key when it is set, otherwise the key's Infisical secret,
\* otherwise the default, converted to cast_type; this holds for a repeated
\* call with another default or cast_type and after the environment changed.
C30_GetResolvesEveryCall ==
    [][(inf'.calls = inf.calls + 1 /\ inf'.ret.op = "get") =>
         LET k == inf'.ret.key
             d == inf'.ret.default
             c == inf'.ret.cast
         IN /\ inf.env[k] # "unset" =>
                 inf'.ret.value = Convert(Str(inf.env[k]), d, c)
            /\ inf.env[k] = "unset" =>
                 inf'.ret.value \in {Convert(Str(v), d, c) : v \in Vals}
                                      \cup {Convert(d, d, c)}
      ]_allVars

\* a step in which the wrapper handled an update
Handled == bot'.left = bot.left - 1 /\ bot'.send = bot.send

\* C31: for a user who is neither in authorized_users nor in admin_users no
\* update, command or callback, ends in the alerts, settings or subscribe
\* functionality.
C31_UnauthorizedNeverServed ==
    [][(Handled /\ bot'.last.user \notin bot.authorized \cup bot.admin) =>
         bot'.last.ran \notin {"alerts", "settings", "subscribe"}]_allVars

\* C32: when a user's /unsubscribe was executed and the same user's next
\* update is /subscribe, cmd_subscribe executes and the user is in
\* authorized_users again, and in the subscriber set when there is one.
C32_ResubscribeAfterUnsubscribe ==
    [][(/\ Handled
        /\ bot.last.ran = "unsubscribe"
        /\ bot'.last.user = bot.last.user
        /\ bot'.last.kind = "command" /\ bot'.last.data = "subscribe") =>
         /\ bot'.last.ran = "subscribe"
         /\ bot'.last.user \in bot'.authorized
         /\ bot.redis => bot'.last.user \in bot'.subscribers]_allVars

\* C33: an update of a user in blocked_users, whatever it is, runs no
\* handler and leaves the sessions, the rate limiter's records and the user
\* sets as they are.
C33_BlockedNeverServed ==
    [][(Handled /\ bot'.last.user \in bot.blocked) =>
         /\ bot'.last.verdict = "blocked"
         /\ bot'.last.ran = "none"
         /\ bot'.sessions = bot.sessions
         /\ bot'.limiter = bot.limiter
         /\ bot'.admitted = bot.admitted
         /\ bot'.authorized = bot.authorized
         /\ bot'.subscribers = bot.subscribers]_allVars

\* C33 witness: user 1, authorized and blocked, sent /subscribe after user
\* 2 was served; user 1 has no session and no rate limiter record.
C33_Witness ==
    /\ bot.last.user = 1 /\ bot.last.verdict = "blocked"
    /\ bot.last.kind = "command" /\ bot.last.data = "subscribe"
    /\ 1 \in bot.blocked /\ 1 \in bot.authorized
    /\ bot.sessions[1] = 0 /\ bot.limiter[1] = <<>>
    /\ bot.sessions[2] = 1

\* C34: of the requests the rate limiter admitted for a user, no more than
\* 30 have their timestamps within 60 seconds of one another; a request the
\* limiter refuses runs no handler, updates no session and adds no
\* timestamp to the user's records.
C34_RateLimited ==
    /\ [](\A u \in Users :
            \A j \in DOMAIN bot.admitted[u] :
               Cardinality({i \in DOMAIN bot.admitted[u] :
                              /\ bot.admitted[u][j] <= bot.admitted[u][i]
                              /\ bot.admitted[u][i] < bot.admitted[u][j] + 60})
                 <= 30)
    /\ [][(Handled /\ bot'.last.verdict = "limited") =>
            LET u == bot'.last.user
            IN /\ bot'.last.ran = "none"
               /\ bot'.sessions = bot.sessions
               /\ bot'.admitted = bot.admitted
               /\ Len(bot'.limiter[u]) <= Len(bot.limiter[u])
               /\ \A i \in DOMAIN bot'.limiter[u] :
                     \E k \in DOMAIN bot.limiter[u] :
                        bot'.limiter[u][i] = bot.limiter[u][k]]_allVars

\* C34 witness: 30 requests of user 1 were admitted within a minute, one
\* more was refused, and a request made after the first ones had aged out
\* was admitted.
C34_Witness ==
    /\ bot.left = 0
    /\ Len(bot.admitted[1]) = 31
    /\ bot.admitted[1][1] = 0
    /\ bot.admitted[1][30] < 60
    /\ bot.admitted[1][31] >= 60
    /\ bot.last.verdict = "run"

====
